---- MODULE Spec2Model ----
(***************************************************************************)
(* Website-blocker browser extension (background script): rule matching,   *)
(* request listeners, the poll loop, the content-classification pipeline   *)
(* and the usage tracker, as a state machine.                              *)
(*                                                                         *)
(* Strings are sequences of one-character strings, so that prefix tests,   *)
(* regular-expression tests and case folding are computed character by     *)
(* character as the script computes them.                                  *)
(***************************************************************************)
EXTENDS Integers, Sequences, FiniteSets, Bags, TLC

\* A value that may be absent (null, undefined, a missing storage key) is a
\* sequence of length 0 or 1.
NONE == <<>>
Some(v) == <<v>>

(***************************************************************************)
(* String fragments and the strings built from them.                       *)
(***************************************************************************)
SCHEME_HTTP == <<"h", "t", "t", "p", ":", "/", "/">>
SCHEME_HTTPS == <<"h", "t", "t", "p", "s", ":", "/", "/">>
WWW_DOT == <<"w", "w", "w", ".">>
SLASH == <<"/">>
LOOPBACK_IP == <<"1", "2", "7", ".", "0", ".", "0", ".", "1">>
LOCALHOST == <<"l", "o", "c", "a", "l", "h", "o", "s", "t">>
DOT_LOCAL == <<".", "l", "o", "c", "a", "l">>
\* browser.runtime.getURL(''): the extension's own origin
\* prefixes of the browser's internal pages (about:, moz-ext:)
INTERNAL_PREFIXES == {<<"a", "b", "o", "u", "t", ":">>,
                      <<"m", "o", "z", "-", "e", "x", "t", ":">>}
EXTENSION_BASE == <<"m", "o", "z", "-", "e", "x", "t", ":", "/", "/", "i", "d", "/">>

YT == <<"y", "t">>
YT_UPPER == <<"Y", "t">>
DOT_COM == <<".", "c", "o", "m">>
PATH_W == <<"/", "w">>
Q_A == <<"?", "a">>

D_YT == YT \o DOT_COM                                 \* yt.com
D_YT_FULL == SCHEME_HTTPS \o WWW_DOT \o D_YT          \* https://www.yt.com
D_YT_MIXED == YT_UPPER \o DOT_COM                     \* Yt.com
D_X == <<"x">> \o DOT_COM                             \* x.com
D_SUB_YT == <<"s", ".">> \o D_YT                      \* s.yt.com
D_EXAMPLE == <<"e", ".", "o", "r", "g">>              \* e.org

U_YT_A == SCHEME_HTTPS \o D_YT \o PATH_W \o Q_A       \* https://yt.com/w?a
U_YT_X == SCHEME_HTTPS \o D_YT \o PATH_W \o <<"?", "x">>  \* https://yt.com/w?x
U_WWW_YT == SCHEME_HTTPS \o WWW_DOT \o D_YT \o PATH_W \* https://www.yt.com/w
U_YT_UPPER == <<"H", "T", "T", "P", ":", "/", "/">> \o <<"W", "W", "W", ".">> \o D_YT_MIXED \o SLASH
U_SUB_YT == SCHEME_HTTPS \o D_SUB_YT \o SLASH         \* https://s.yt.com/
U_YT_DL == SCHEME_HTTPS \o (YT \o <<"-", "d">> \o DOT_COM)  \* https://yt-d.com
U_YT_COMMUNITY == SCHEME_HTTPS \o (D_YT \o <<"m", "u">>)  \* https://yt.commu
U_YT_EVIL == SCHEME_HTTPS \o (D_YT \o <<".", "e">> \o DOT_COM)  \* https://yt.com.e.com
U_X_DASH == SCHEME_HTTPS \o <<"x", "-", "c", "o", "m">> \o SLASH  \* https://x-com/
U_EXAMPLE == SCHEME_HTTPS \o D_EXAMPLE \o SLASH       \* https://e.org/
U_FTP_YT == <<"f", "t", "p", ":", "/", "/">> \o D_YT \o SLASH  \* ftp://yt.com/
U_EXT_PAGE == EXTENSION_BASE \o <<"b">>               \* moz-ext://id/b
U_LOOPBACK == SCHEME_HTTP \o LOOPBACK_IP \o SLASH     \* http://127.0.0.1/
U_LOCALHOST == SCHEME_HTTP \o LOCALHOST \o SLASH      \* http://localhost/
U_QUERY_LOCALHOST == U_EXAMPLE \o <<"?">> \o LOCALHOST  \* https://e.org/?localhost

W_YT_A == D_YT \o PATH_W \o Q_A                       \* yt.com/w?a
W_WWW_YT == SCHEME_HTTPS \o WWW_DOT \o D_YT \o PATH_W \* https://www.yt.com/w
W_YT_UPPER == D_YT_MIXED \o <<"/", "W">>              \* Yt.com/W

(***************************************************************************)
(* String primitives of the host language.                                 *)
(***************************************************************************)
UPPER_TO_LOWER == [c \in {"H", "T", "P", "W", "Y"} |->
                     CASE c = "H" -> "h" [] c = "T" -> "t" [] c = "P" -> "p"
                       [] c = "W" -> "w" [] c = "Y" -> "y"]

toLowerCaseChar(c) == IF c \in DOMAIN UPPER_TO_LOWER THEN UPPER_TO_LOWER[c] ELSE c

toLowerCase(s) == [i \in 1..Len(s) |-> toLowerCaseChar(s[i])]

Drop(s, n) == SubSeq(s, n + 1, Len(s))

startsWith(s, p) == Len(p) <= Len(s) /\ SubSeq(s, 1, Len(p)) = p

endsWith(s, p) == Len(p) <= Len(s) /\ SubSeq(s, Len(s) - Len(p) + 1, Len(s)) = p

includes(s, p) == \E i \in 0..(Len(s) - Len(p)) : SubSeq(s, i + 1, i + Len(p)) = p

\* Array.prototype.includes
arrayIncludes(arr, x) == \E i \in 1..Len(arr) : arr[i] = x

\* s.replace(/^https?:\/\//, '')
replaceProtocol(s) ==
  IF startsWith(s, SCHEME_HTTPS) THEN Drop(s, Len(SCHEME_HTTPS))
  ELSE IF startsWith(s, SCHEME_HTTP) THEN Drop(s, Len(SCHEME_HTTP))
  ELSE s

\* s.replace(/^www\./, '')
replaceWww(s) == IF startsWith(s, WWW_DOT) THEN Drop(s, Len(WWW_DOT)) ELSE s

\* site.replace(/^(https?:\/\/)?(www\.)?/, ''): both groups optional and greedy
replaceProtocolAndWww(site) == replaceWww(replaceProtocol(site))

\* new URL(url).hostname, for URLs without user, password or IPv6 host: what
\* stands between the "://" and the next "/", "?", ":" or "#", in lower case
HostEnd == {"/", "?", ":", "#"}

RECURSIVE upToHostEnd(_)
upToHostEnd(s) ==
  IF s = <<>> \/ Head(s) \in HostEnd THEN <<>>
  ELSE <<Head(s)>> \o upToHostEnd(Tail(s))

RECURSIVE afterSchemeSeparator(_)
afterSchemeSeparator(s) ==
  IF Len(s) < 3 THEN <<>>
  ELSE IF SubSeq(s, 1, 3) = <<":", "/", "/">> THEN Drop(s, 3)
  ELSE afterSchemeSeparator(Tail(s))

hostname(url) == toLowerCase(upToHostEnd(afterSchemeSeparator(url)))

\* extractDomain(url); <<>> stands for null and for the empty host
extractDomain(url) == toLowerCase(replaceWww(hostname(url)))

REGEX_SPECIAL == {".", "*", "+", "?", "^", "$", "{", "}", "(", ")", "|", "[", "]", "\\"}

\* site.replace(/[.*+?^${}()|[\]\\]/g, '\\$&')
RECURSIVE escapeRegExp(_)
escapeRegExp(s) ==
  IF s = <<>> THEN <<>>
  ELSE (IF Head(s) \in REGEX_SPECIAL THEN <<"\\", Head(s)>> ELSE <<Head(s)>>)
         \o escapeRegExp(Tail(s))

\* Whether the regular expression source `re` (literals, escaped characters
\* and the wildcard ".") matches a prefix of s, ignoring case (flag 'i').
RECURSIVE regexMatchesPrefix(_, _)
regexMatchesPrefix(re, s) ==
  IF re = <<>> THEN TRUE
  ELSE IF Head(re) = "\\"
    THEN /\ Len(re) >= 2
         /\ s # <<>>
         /\ toLowerCaseChar(Head(s)) = toLowerCaseChar(re[2])
         /\ regexMatchesPrefix(Drop(re, 2), Tail(s))
  ELSE IF Head(re) = "."
    THEN /\ s # <<>>
         /\ regexMatchesPrefix(Tail(re), Tail(s))
  ELSE /\ s # <<>>
       /\ toLowerCaseChar(Head(s)) = toLowerCaseChar(Head(re))
       /\ regexMatchesPrefix(Tail(re), Tail(s))

(***************************************************************************)
(* Pattern matching and the whitelist.                                     *)
(***************************************************************************)
\* The script's fallback list, abbreviated to two of its ten entries
\* ("x.com" and "youtube.com", the latter written yt.com here).
DEFAULT_BLOCKED_SITES == <<D_X, D_YT>>

\* A compiled pattern is kept as the list of its escaped alternatives; the
\* frame ^https?://(www\.)? around them is interpreted by patternTest. The
\* null pattern (no sites) is the empty list.
NO_PATTERN == <<>>

buildPatternForSites(sites) ==
  IF Len(sites) = 0 THEN NO_PATTERN
  ELSE [i \in 1..Len(sites) |-> escapeRegExp(replaceProtocolAndWww(sites[i]))]

\* new RegExp(`^https?://(www\\.)?(${escaped.join('|')})`, 'i').test(url)
patternTest(pattern, url) ==
  LET anyAlternative(rest) ==
        \E i \in 1..Len(pattern) : regexMatchesPrefix(pattern[i], rest)
      optionalWww(rest) ==
        \/ /\ regexMatchesPrefix(<<"w", "w", "w", "\\", ".">>, rest)
           /\ anyAlternative(Drop(rest, 4))
        \/ anyAlternative(rest)
      colonSlashSlash(rest) ==
        /\ regexMatchesPrefix(<<":", "/", "/">>, rest)
        /\ optionalWww(Drop(rest, 3))
  IN /\ regexMatchesPrefix(<<"h", "t", "t", "p">>, url)
     /\ \/ /\ regexMatchesPrefix(<<"s">>, Drop(url, 4))
           /\ colonSlashSlash(Drop(url, 5))
        \/ colonSlashSlash(Drop(url, 4))

\* A faulty iteration that never compares without the leading www.
whitelistEntryMatchesNoWww(normalizedUrl, whitelistEntry) ==
  LET normalizedWhitelist == toLowerCase(whitelistEntry)
      urlWithoutProtocol == replaceProtocol(normalizedUrl)
      whitelistWithoutProtocol == replaceProtocol(normalizedWhitelist)
  IN \/ normalizedUrl = normalizedWhitelist
     \/ startsWith(normalizedUrl, normalizedWhitelist)
     \/ urlWithoutProtocol = whitelistWithoutProtocol
     \/ startsWith(urlWithoutProtocol, whitelistWithoutProtocol)

\* One iteration of the loop of isWhitelisted.
whitelistEntryMatches(normalizedUrl, whitelistEntry) ==
  LET normalizedWhitelist == toLowerCase(whitelistEntry)
      urlWithoutProtocol == replaceProtocol(normalizedUrl)
      whitelistWithoutProtocol == replaceProtocol(normalizedWhitelist)
      urlNoWww == replaceWww(urlWithoutProtocol)
      whitelistNoWww == replaceWww(whitelistWithoutProtocol)
  IN \/ normalizedUrl = normalizedWhitelist
     \/ startsWith(normalizedUrl, normalizedWhitelist)
     \/ urlWithoutProtocol = whitelistWithoutProtocol
     \/ startsWith(urlWithoutProtocol, whitelistWithoutProtocol)
     \/ urlNoWww = whitelistNoWww
     \/ startsWith(urlNoWww, whitelistNoWww)

isWhitelistedIn(url, whitelist) ==
  IF Len(whitelist) = 0 THEN FALSE
  ELSE \E i \in 1..Len(whitelist) :
         whitelistEntryMatches(toLowerCase(url), whitelist[i])

(***************************************************************************)
(* State.                                                                  *)
(***************************************************************************)
VARIABLES
  initialized,          \* initialize() has run past its storage read
  isBlocking, blockedSites, alwaysBlockedSites, whitelistedUrls,
  blockCount, appConnected, isPunishmentLocked,
  listeners,            \* listeners registered on webRequest.onBeforeRequest
  storage,              \* browser.storage.local
  lastRequest,          \* the last listener call and what it returned
  strikesInFlight,      \* /adult-strike POSTs issued and not yet answered
  syncs,                \* the invocations of syncWithApp: where each stands
  aiCheckedDomains,     \* domains the classifier has already resolved
  classified,           \* history: domains a cached result was received for
  aiCheckInProgress,    \* domains with a classification in progress
  checks,               \* the invocations of checkPageContent
  lastTabUpdate,        \* the last tabs.update call: the page replaced, marker
  usageReportQueue,     \* usage reports waiting for a later delivery
  sending,              \* reports reportWebsiteUsage is delivering
  flushes,              \* the invocations of flushUsageQueue: their batches
  nextReportId,         \* identity of the next report object created
  delivered,            \* reports the server has accepted at least once
  firstQueued,          \* history: report ids in the order of their first push
  currentDomain,        \* the domain of the open usage session, or null
  trackingStartTime,    \* Date.now() at the start of the session, or null
  now,                  \* Date.now(), in half seconds
  windowFocused,        \* a browser window has the focus
  trackQueries,         \* invocations of trackActiveTab awaiting tabs.query
  sessionOpenedAt,      \* history: now when currentDomain was last set, or null
  sessionReported       \* history: seconds reported for currentDomain since

ruleVars == <<isBlocking, blockedSites, alwaysBlockedSites, whitelistedUrls,
              blockCount, appConnected, isPunishmentLocked, listeners>>
syncVars == <<syncs>>
aiVars == <<aiCheckedDomains, classified, aiCheckInProgress, checks,
            lastTabUpdate>>
trackVars == <<currentDomain, trackingStartTime, now, windowFocused,
               trackQueries, sessionOpenedAt, sessionReported>>
usageVars == <<usageReportQueue, sending, flushes, nextReportId, delivered,
               firstQueued, trackVars>>
vars == <<initialized, ruleVars, storage, lastRequest, strikesInFlight,
          syncVars, aiVars, usageVars>>

(***************************************************************************)
(* Bounds of the model.                                                    *)
(***************************************************************************)
MaxBlockCount == 1
MaxStrikesInFlight == 2
\* syncWithApp invocations that may be in progress at once (timer, forceSync)
MaxSyncs == 2
SyncIds == 1..MaxSyncs
\* checkPageContent invocations (page loads) that may be in progress at once
MaxChecks == 2
CheckIds == 1..MaxChecks
\* flushUsageQueue invocations that may be in progress at once
MaxFlushes == 2
FlushIds == 1..MaxFlushes
\* usage reports created in a run
MaxReports == 3
\* trackActiveTab invocations that may be in progress at once
MaxQueries == 1
\* the clock stops here; a second is two ticks
MaxClock == 24

(***************************************************************************)
(* Inputs: navigation targets, persisted lists, server records.            *)
(***************************************************************************)
Urls == {U_YT_A, U_YT_X, U_WWW_YT, U_YT_UPPER, U_SUB_YT, U_YT_DL,
         U_YT_COMMUNITY, U_YT_EVIL, U_X_DASH, U_EXAMPLE, U_FTP_YT,
         U_EXT_PAGE, U_LOOPBACK, U_LOCALHOST, U_QUERY_LOCALHOST}

UNLOCKED_RECORD == [is_locked |-> FALSE, lock_time_remaining |-> 0]
LOCKED_RECORD == [is_locked |-> TRUE, lock_time_remaining |-> 2]
EXPIRED_RECORD == [is_locked |-> TRUE, lock_time_remaining |-> 0]
PunishmentRecords == {UNLOCKED_RECORD, LOCKED_RECORD, EXPIRED_RECORD}

StoredWhitelists == {NONE, Some(<<W_YT_A>>), Some(<<W_WWW_YT>>),
                     Some(<<W_YT_UPPER>>), Some(<<<<"h", "t", "t", "p">>>>),
                     Some(<<<<"w", "w">>, D_EXAMPLE>>)}

\* Every combination of persisted lists with a short whitelist and no
\* punishment record, and every persisted whitelist and punishment record
\* with the default session list and a permanent list.
RuleStorageImages ==
  [blockedSites : {NONE, Some(<<>>), Some(<<D_YT_FULL, D_EXAMPLE>>)},
   alwaysBlockedSites : {NONE, Some(<<D_YT_MIXED>>)},
   whitelistedUrls : {NONE, Some(<<W_YT_A>>)},
   blockCount : {0},
   punishmentState : {NONE},
   aiCheckedDomains : {NONE}]
  \cup
  [blockedSites : {NONE},
   alwaysBlockedSites : {Some(<<D_YT_MIXED>>)},
   whitelistedUrls : StoredWhitelists,
   blockCount : {0},
   punishmentState : {NONE, Some(LOCKED_RECORD)},
   aiCheckedDomains : {NONE}]

\* Bodies of an OK answer of GET /sites
SITES_FULL == [sites |-> <<D_YT>>, alwaysBlocked |-> <<D_YT_MIXED>>,
               whitelist |-> Some(<<W_YT_A>>)]
SITES_EMPTY == [sites |-> <<>>, alwaysBlocked |-> <<>>, whitelist |-> Some(<<>>)]
SITES_ADULT_EXAMPLE == [sites |-> <<>>, alwaysBlocked |-> <<D_EXAMPLE>>,
                        whitelist |-> NONE]

\* An invocation of syncWithApp: pc is the await it is suspended in; data and
\* status are the locals a callee keeps across an await; wasBlocking is
\* isBlocking as the catch block of syncWithApp read it (line 119).
IDLE_SYNC == [pc |-> "idle", data |-> SITES_EMPTY, status |-> UNLOCKED_RECORD,
              wasBlocking |-> FALSE]

\* Bodies of an OK answer of POST /check-content
CheckResults == [is_nsfw : BOOLEAN, method : {"heuristic", "disabled", "no_api_key"}]

\* An invocation of checkPageContent(tabId, url, domain): pc is the await it
\* is suspended in, result the answer kept across the storage writes; domain
\* is extractDomain(url), and the tab is the one that shows url.
IDLE_CHECK == [pc |-> "idle", url |-> <<>>,
               result |-> [is_nsfw |-> FALSE, method |-> "heuristic"]]

NO_TAB_UPDATE == [url |-> <<>>, marker |-> ""]

(***************************************************************************)
(* Helpers reading the state.                                              *)
(***************************************************************************)
isWhitelisted(url) == isWhitelistedIn(url, whitelistedUrls)
buildBlockPattern == buildPatternForSites(blockedSites)
buildAlwaysBlockPattern == buildPatternForSites(alwaysBlockedSites)

\* A listener's return value: {} or {redirectUrl: blocked.html?url=...<marker>}
ALLOW == [redirect |-> FALSE, marker |-> ""]
Redirect(marker) == [redirect |-> TRUE, marker |-> marker]

NO_REQUEST == [listener |-> "none", url |-> <<>>, result |-> ALLOW]
Request(listener, url, result) ==
  [listener |-> listener, url |-> url, result |-> result]

\* data.key || fallback for a stored value
OrElse(maybe, fallback) == IF maybe = NONE THEN fallback ELSE maybe[1]

\* The invocation slot a new call of syncWithApp takes: the lowest idle one.
HasIdleSync == \E i \in SyncIds : syncs[i].pc = "idle"
IdleSync == CHOOSE i \in SyncIds :
              /\ syncs[i].pc = "idle"
              /\ \A j \in SyncIds : syncs[j].pc = "idle" => i <= j

(***************************************************************************)
(* Script load and initialize().                                           *)
(***************************************************************************)
\* The top-level variable initialisers: the state at script load.
ScriptLoaded ==
  /\ initialized = FALSE
  /\ isBlocking = FALSE
  /\ blockedSites = <<>>
  /\ alwaysBlockedSites = <<>>
  /\ whitelistedUrls = <<>>
  /\ blockCount = 0
  /\ appConnected = FALSE
  /\ isPunishmentLocked = FALSE
  /\ listeners = EmptyBag
  /\ lastRequest = NO_REQUEST
  /\ strikesInFlight = 0
  /\ syncs = [i \in SyncIds |-> IDLE_SYNC]
  /\ aiCheckedDomains = {}
  /\ classified = {}
  /\ aiCheckInProgress = {}
  /\ checks = [c \in CheckIds |-> IDLE_CHECK]
  /\ lastTabUpdate = NO_TAB_UPDATE
  /\ usageReportQueue = <<>>
  /\ sending = {}
  /\ flushes = [f \in FlushIds |-> <<>>]
  /\ nextReportId = 1
  /\ delivered = {}
  /\ firstQueued = <<>>
  /\ currentDomain = NONE
  /\ trackingStartTime = NONE
  /\ now = 1
  /\ windowFocused = TRUE
  /\ trackQueries = 0
  /\ sessionOpenedAt = NONE
  /\ sessionReported = 0

\* webRequest.onBeforeRequest: the registrations, as a bag of listeners.
\* addListener adds a registration, removeListener takes one away.
addListener(ls, l) == ls (+) SetToBag({l})
removeListener(ls, l) == ls (-) SetToBag({l})
hasListener(ls, l) == BagIn(l, ls)

\* a start function that registers its listener without removing an
\* earlier registration first
startBlockingWithoutRemoving(ls) == addListener(ls, "blockRequest")

startAlwaysBlocking(ls) ==
  addListener(IF hasListener(ls, "alwaysBlockRequest")
                THEN removeListener(ls, "alwaysBlockRequest")
              ELSE ls,
              "alwaysBlockRequest")
startBlocking(ls) ==
  addListener(IF hasListener(ls, "blockRequest")
                THEN removeListener(ls, "blockRequest")
              ELSE ls,
              "blockRequest")
\* a stop function that takes every registration away
stopBlockingEveryListener(ls) == EmptyBag

stopBlocking(ls) ==
  IF hasListener(ls, "blockRequest")
    THEN removeListener(ls, "blockRequest")
  ELSE ls
startPunishmentBlocking(ls) ==
  addListener(IF hasListener(ls, "punishmentBlockRequest")
                THEN removeListener(ls, "punishmentBlockRequest")
              ELSE ls,
              "punishmentBlockRequest")
stopPunishmentBlocking(ls) ==
  IF hasListener(ls, "punishmentBlockRequest")
    THEN removeListener(ls, "punishmentBlockRequest")
  ELSE ls

\* initialize(), from the moment its storage read has resolved
Initialize ==
  /\ ~initialized
  /\ initialized' = TRUE
  /\ blockedSites' = OrElse(storage.blockedSites, DEFAULT_BLOCKED_SITES)
  /\ alwaysBlockedSites' = OrElse(storage.alwaysBlockedSites, <<>>)
  /\ whitelistedUrls' = OrElse(storage.whitelistedUrls, <<>>)
  /\ blockCount' = storage.blockCount
  /\ LET locked == /\ storage.punishmentState # NONE
                   /\ storage.punishmentState[1].is_locked
     IN /\ isPunishmentLocked' = (IF locked THEN TRUE ELSE isPunishmentLocked)
        /\ listeners' = startAlwaysBlocking(
                          IF locked THEN startPunishmentBlocking(listeners)
                          ELSE listeners)
  /\ IF storage.aiCheckedDomains # NONE
       THEN aiCheckedDomains' = storage.aiCheckedDomains[1]
     ELSE UNCHANGED aiCheckedDomains
  /\ UNCHANGED <<classified, aiCheckInProgress, checks, lastTabUpdate>>
  /\ HasIdleSync
  /\ syncs' = [syncs EXCEPT ![IdleSync].pc = "status"]
  /\ UNCHANGED <<isBlocking, appConnected, storage, lastRequest, strikesInFlight>>
  /\ UNCHANGED usageVars

(***************************************************************************)
(* Request listeners.                                                      *)
(***************************************************************************)
\* A faulty session-block listener that never consults the whitelist.
BlockRequestPatternOnly(url) ==
  /\ BagIn("blockRequest", listeners)
  /\ IF buildBlockPattern # NO_PATTERN /\ patternTest(buildBlockPattern, url)
       THEN /\ blockCount < MaxBlockCount
            /\ blockCount' = blockCount + 1
            /\ storage' = [storage EXCEPT !.blockCount = blockCount + 1]
            /\ lastRequest' = Request("blockRequest", url, Redirect(""))
     ELSE /\ lastRequest' = Request("blockRequest", url, ALLOW)
          /\ UNCHANGED <<blockCount, storage>>
  /\ UNCHANGED <<initialized, isBlocking, blockedSites, alwaysBlockedSites,
                 whitelistedUrls, appConnected, isPunishmentLocked, listeners,
                 strikesInFlight>>
  /\ UNCHANGED <<syncVars, aiVars, usageVars>>

\* blockRequest(details): the session-block listener
BlockRequest(url) ==
  /\ BagIn("blockRequest", listeners)
  /\ IF isWhitelisted(url)
       THEN /\ lastRequest' = Request("blockRequest", url, ALLOW)
            /\ UNCHANGED <<blockCount, storage>>
     ELSE IF buildBlockPattern # NO_PATTERN /\ patternTest(buildBlockPattern, url)
       THEN /\ blockCount < MaxBlockCount
            /\ blockCount' = blockCount + 1
            /\ storage' = [storage EXCEPT !.blockCount = blockCount + 1]
            /\ lastRequest' = Request("blockRequest", url, Redirect(""))
     ELSE /\ lastRequest' = Request("blockRequest", url, ALLOW)
          /\ UNCHANGED <<blockCount, storage>>
  /\ UNCHANGED <<initialized, isBlocking, blockedSites, alwaysBlockedSites,
                 whitelistedUrls, appConnected, isPunishmentLocked, listeners,
                 strikesInFlight>>
  /\ UNCHANGED <<syncVars, aiVars, usageVars>>

\* A faulty always-block listener that lets whitelisted URLs through.
AlwaysBlockRequestHonouringWhitelist(url) ==
  /\ BagIn("alwaysBlockRequest", listeners)
  /\ IF /\ ~isWhitelisted(url)
        /\ buildAlwaysBlockPattern # NO_PATTERN
        /\ patternTest(buildAlwaysBlockPattern, url)
       THEN /\ blockCount < MaxBlockCount
            /\ strikesInFlight < MaxStrikesInFlight
            /\ blockCount' = blockCount + 1
            /\ storage' = [storage EXCEPT !.blockCount = blockCount + 1]
            /\ strikesInFlight' = strikesInFlight + 1
            /\ lastRequest' = Request("alwaysBlockRequest", url, Redirect("adult"))
     ELSE /\ lastRequest' = Request("alwaysBlockRequest", url, ALLOW)
          /\ UNCHANGED <<blockCount, storage, strikesInFlight>>
  /\ UNCHANGED <<initialized, isBlocking, blockedSites, alwaysBlockedSites,
                 whitelistedUrls, appConnected, isPunishmentLocked, listeners>>
  /\ UNCHANGED <<syncVars, aiVars, usageVars>>

\* alwaysBlockRequest(details): the always-block (adult content) listener
AlwaysBlockRequest(url) ==
  /\ BagIn("alwaysBlockRequest", listeners)
  /\ IF buildAlwaysBlockPattern # NO_PATTERN
          /\ patternTest(buildAlwaysBlockPattern, url)
       THEN /\ blockCount < MaxBlockCount
            /\ strikesInFlight < MaxStrikesInFlight
            /\ blockCount' = blockCount + 1
            /\ storage' = [storage EXCEPT !.blockCount = blockCount + 1]
            /\ strikesInFlight' = strikesInFlight + 1
            /\ lastRequest' = Request("alwaysBlockRequest", url, Redirect("adult"))
     ELSE /\ lastRequest' = Request("alwaysBlockRequest", url, ALLOW)
          /\ UNCHANGED <<blockCount, storage, strikesInFlight>>
  /\ UNCHANGED <<initialized, isBlocking, blockedSites, alwaysBlockedSites,
                 whitelistedUrls, appConnected, isPunishmentLocked, listeners>>
  /\ UNCHANGED <<syncVars, aiVars, usageVars>>

\* punishmentBlockRequest(details): the punishment listener
PunishmentBlockRequest(url) ==
  /\ BagIn("punishmentBlockRequest", listeners)
  /\ lastRequest' =
       Request("punishmentBlockRequest", url,
               IF startsWith(url, EXTENSION_BASE) THEN ALLOW
               ELSE IF includes(url, LOOPBACK_IP) \/ includes(url, LOCALHOST)
                 THEN ALLOW
               ELSE Redirect("adult+punishment"))
  /\ UNCHANGED <<initialized, ruleVars, storage, strikesInFlight>>
  /\ UNCHANGED <<syncVars, aiVars, usageVars>>

\* reportAdultStrike(), from the moment the POST is answered or fails
ReportAdultStrikeAnswered ==
  /\ strikesInFlight > 0
  /\ strikesInFlight' = strikesInFlight - 1
  /\ \/ \E data \in PunishmentRecords :
          storage' = [storage EXCEPT !.punishmentState = Some(data)]
     \/ UNCHANGED storage
  /\ UNCHANGED <<initialized, ruleVars, lastRequest>>
  /\ UNCHANGED <<syncVars, aiVars, usageVars>>

(***************************************************************************)
(* Popup messages.                                                         *)
(***************************************************************************)
\* what the 'manualToggle' handler passes to sendResponse
manualToggleResponse ==
  IF ~appConnected
    THEN [isBlocking |-> ~isBlocking]
  ELSE [error |-> "Controlled by desktop app"]

\* a 'manualToggle' handler without the appConnected test
ManualToggleWhileConnected ==
  /\ isBlocking' = ~isBlocking
  /\ listeners' = IF ~isBlocking THEN startBlocking(listeners)
                  ELSE stopBlocking(listeners)
  /\ UNCHANGED <<initialized, blockedSites, alwaysBlockedSites, whitelistedUrls,
                 blockCount, appConnected, isPunishmentLocked, storage,
                 lastRequest, strikesInFlight>>
  /\ UNCHANGED <<syncVars, aiVars, usageVars>>

\* onMessage, action 'manualToggle'
ManualToggle ==
  /\ IF ~appConnected
       THEN /\ isBlocking' = ~isBlocking
            /\ listeners' = IF ~isBlocking THEN startBlocking(listeners)
                            ELSE stopBlocking(listeners)
     ELSE UNCHANGED <<isBlocking, listeners>>
  /\ UNCHANGED <<initialized, blockedSites, alwaysBlockedSites, whitelistedUrls,
                 blockCount, appConnected, isPunishmentLocked, storage,
                 lastRequest, strikesInFlight>>
  /\ UNCHANGED <<syncVars, aiVars, usageVars>>

\* onMessage, action 'resetCount'
ResetCount ==
  /\ blockCount' = 0
  /\ storage' = [storage EXCEPT !.blockCount = 0]
  /\ UNCHANGED <<initialized, isBlocking, blockedSites, alwaysBlockedSites,
                 whitelistedUrls, appConnected, isPunishmentLocked, listeners,
                 lastRequest, strikesInFlight>>
  /\ UNCHANGED <<syncVars, aiVars, usageVars>>

(***************************************************************************)
(* syncWithApp() and its callees. Every await of a network or storage call *)
(* is a suspension point; the steps between two awaits are one action.     *)
(***************************************************************************)
\* A call of syncWithApp (the 2-second timer or the popup's forceSync): the
\* GET /status is sent.
StartSync ==
  /\ HasIdleSync
  /\ syncs' = [syncs EXCEPT ![IdleSync].pc = "status"]
  /\ UNCHANGED <<initialized, ruleVars, storage, lastRequest, strikesInFlight,
                 aiVars, usageVars>>

\* checkPunishmentStatus() is entered: GET /punishment-status is sent.
EnterCheckPunishmentStatus(i) ==
  syncs' = [syncs EXCEPT ![i].pc = "punishment", ![i].data = SITES_EMPTY]

\* a cycle that arms the session rule before it refreshes the lists
SyncStatusOkArmingFirst(i, b) ==
  /\ syncs[i].pc = "status"
  /\ appConnected' = TRUE
  /\ isBlocking' = b
  /\ IF b /\ ~isBlocking
       THEN /\ syncs' = [syncs EXCEPT ![i].pc = "sites"]
            /\ listeners' = startBlocking(listeners)
     ELSE /\ listeners' = IF ~b /\ isBlocking THEN stopBlocking(listeners)
                          ELSE listeners
          /\ syncs' = [syncs EXCEPT ![i].pc = "punishment"]
  /\ UNCHANGED <<initialized, blockedSites, alwaysBlockedSites, whitelistedUrls,
                 blockCount, isPunishmentLocked, storage, lastRequest,
                 strikesInFlight, aiVars, usageVars>>

\* /status answered OK with status.isBlocking = b (lines 86-103, up to the
\* next await)
SyncStatusOk(i, b) ==
  /\ syncs[i].pc = "status"
  /\ appConnected' = TRUE
  /\ isBlocking' = b
  /\ IF b /\ ~isBlocking
       THEN \* await fetchBlockedSites(): GET /sites is sent
            /\ syncs' = [syncs EXCEPT ![i].pc = "sites"]
            /\ UNCHANGED listeners
     ELSE /\ listeners' = IF ~b /\ isBlocking THEN stopBlocking(listeners)
                          ELSE listeners
          /\ syncs' = [syncs EXCEPT ![i].pc = "punishment"]
  /\ UNCHANGED <<initialized, blockedSites, alwaysBlockedSites, whitelistedUrls,
                 blockCount, isPunishmentLocked, storage, lastRequest,
                 strikesInFlight, aiVars, usageVars>>

\* /status answered with a non-OK HTTP status (lines 104-106)
SyncStatusNotOk(i) ==
  /\ syncs[i].pc = "status"
  /\ appConnected' = FALSE
  /\ syncs' = [syncs EXCEPT ![i].pc = "punishment"]
  /\ UNCHANGED <<initialized, isBlocking, blockedSites, alwaysBlockedSites,
                 whitelistedUrls, blockCount, isPunishmentLocked, listeners,
                 storage, lastRequest, strikesInFlight, aiVars, usageVars>>

\* A faulty catch block that marks the app disconnected and leaves the
\* session block as it is.
SyncStatusErrorKeepsBlocking(i) ==
  /\ syncs[i].pc = "status"
  /\ appConnected' = FALSE
  /\ syncs' = [syncs EXCEPT ![i].pc = "cachedInCatch", ![i].wasBlocking = isBlocking]
  /\ UNCHANGED <<initialized, isBlocking, blockedSites, alwaysBlockedSites,
                 whitelistedUrls, blockCount, isPunishmentLocked, listeners,
                 storage, lastRequest, strikesInFlight, aiVars, usageVars>>

\* the fetch of /status (or the parse of its body) throws: the catch block
\* (lines 114-126), up to the storage read of checkCachedPunishmentStatus
SyncStatusError(i) ==
  /\ syncs[i].pc = "status"
  /\ appConnected' = FALSE
  /\ isBlocking' = FALSE
  /\ listeners' = IF isBlocking THEN stopBlocking(listeners) ELSE listeners
  /\ syncs' = [syncs EXCEPT ![i].pc = "cachedInCatch", ![i].wasBlocking = isBlocking]
  /\ UNCHANGED <<initialized, blockedSites, alwaysBlockedSites, whitelistedUrls,
                 blockCount, isPunishmentLocked, storage, lastRequest,
                 strikesInFlight, aiVars, usageVars>>

\* fetchBlockedSites() has returned: startBlocking(), then the next callee
FinishFetchBlockedSites(i) ==
  /\ listeners' = startBlocking(listeners)
  /\ EnterCheckPunishmentStatus(i)
  /\ UNCHANGED <<blockedSites, alwaysBlockedSites, whitelistedUrls, storage>>

\* fetchBlockedSites, lines 207-212
FetchWhitelistPart(i, data) ==
  IF data.whitelist # NONE
    THEN /\ whitelistedUrls' = data.whitelist[1]
         /\ storage' = [storage EXCEPT !.whitelistedUrls = data.whitelist]
         /\ syncs' = [syncs EXCEPT ![i].pc = "sitesStored3", ![i].data = data]
         /\ UNCHANGED <<blockedSites, alwaysBlockedSites, listeners>>
  ELSE FinishFetchBlockedSites(i)

\* fetchBlockedSites, lines 200-205
FetchAlwaysBlockedPart(i, data) ==
  IF Len(data.alwaysBlocked) > 0
    THEN /\ alwaysBlockedSites' = data.alwaysBlocked
         /\ storage' = [storage EXCEPT !.alwaysBlockedSites = Some(data.alwaysBlocked)]
         /\ syncs' = [syncs EXCEPT ![i].pc = "sitesStored2", ![i].data = data]
         /\ UNCHANGED <<blockedSites, whitelistedUrls, listeners>>
  ELSE FetchWhitelistPart(i, data)

\* fetchBlockedSites, lines 194-198
FetchSitesPart(i, data) ==
  IF Len(data.sites) > 0
    THEN /\ blockedSites' = data.sites
         /\ storage' = [storage EXCEPT !.blockedSites = Some(data.sites)]
         /\ syncs' = [syncs EXCEPT ![i].pc = "sitesStored1", ![i].data = data]
         /\ UNCHANGED <<alwaysBlockedSites, whitelistedUrls, listeners>>
  ELSE FetchAlwaysBlockedPart(i, data)

\* /sites answered OK with body data
SitesOk(i, data) ==
  /\ syncs[i].pc = "sites"
  /\ FetchSitesPart(i, data)
  /\ UNCHANGED <<initialized, isBlocking, blockCount, appConnected,
                 isPunishmentLocked, lastRequest, strikesInFlight, aiVars,
                 usageVars>>

\* /sites answered non-OK, or its fetch throws (caught inside fetchBlockedSites)
SitesFailed(i) ==
  /\ syncs[i].pc = "sites"
  /\ FinishFetchBlockedSites(i)
  /\ UNCHANGED <<initialized, isBlocking, blockCount, appConnected,
                 isPunishmentLocked, lastRequest, strikesInFlight, aiVars,
                 usageVars>>

\* a storage.set of fetchBlockedSites has resolved
SitesStored(i) ==
  /\ syncs[i].pc \in {"sitesStored1", "sitesStored2", "sitesStored3"}
  /\ CASE syncs[i].pc = "sitesStored1" -> FetchAlwaysBlockedPart(i, syncs[i].data)
       [] syncs[i].pc = "sitesStored2" -> FetchWhitelistPart(i, syncs[i].data)
       [] syncs[i].pc = "sitesStored3" -> FinishFetchBlockedSites(i)
  /\ UNCHANGED <<initialized, isBlocking, blockCount, appConnected,
                 isPunishmentLocked, lastRequest, strikesInFlight, aiVars,
                 usageVars>>

\* /punishment-status answered OK with body status: it is written to the
\* storage (lines 138-140)
PunishmentStatusOk(i, status) ==
  /\ syncs[i].pc = "punishment"
  /\ storage' = [storage EXCEPT !.punishmentState = Some(status)]
  /\ syncs' = [syncs EXCEPT ![i].pc = "punishmentStored", ![i].status = status]
  /\ UNCHANGED <<initialized, ruleVars, lastRequest, strikesInFlight, aiVars,
                 usageVars>>

\* a checkPunishmentStatus that records the flag and leaves the rule alone
PunishmentStatusStoredFlagOnly(i) ==
  /\ syncs[i].pc = "punishmentStored"
  /\ isPunishmentLocked' = syncs[i].status.is_locked
  /\ syncs' = [syncs EXCEPT ![i].pc = "cache", ![i].status = UNLOCKED_RECORD]
  /\ UNCHANGED <<initialized, isBlocking, blockedSites, alwaysBlockedSites,
                 whitelistedUrls, blockCount, appConnected, listeners, storage,
                 lastRequest, strikesInFlight, aiVars, usageVars>>

\* the storage.set of checkPunishmentStatus has resolved (lines 142-149);
\* then syncAICache() sends GET /nsfw-cache
PunishmentStatusStored(i) ==
  /\ syncs[i].pc = "punishmentStored"
  /\ isPunishmentLocked' = syncs[i].status.is_locked
  /\ listeners' =
       IF syncs[i].status.is_locked /\ ~isPunishmentLocked
         THEN startPunishmentBlocking(listeners)
       ELSE IF ~syncs[i].status.is_locked /\ isPunishmentLocked
         THEN stopPunishmentBlocking(listeners)
       ELSE listeners
  /\ syncs' = [syncs EXCEPT ![i].pc = "cache", ![i].status = UNLOCKED_RECORD]
  /\ UNCHANGED <<initialized, isBlocking, blockedSites, alwaysBlockedSites,
                 whitelistedUrls, blockCount, appConnected, storage,
                 lastRequest, strikesInFlight, aiVars, usageVars>>

\* /punishment-status answered non-OK: nothing is done (line 138)
PunishmentStatusNotOk(i) ==
  /\ syncs[i].pc = "punishment"
  /\ syncs' = [syncs EXCEPT ![i].pc = "cache"]
  /\ UNCHANGED <<initialized, ruleVars, storage, lastRequest, strikesInFlight,
                 aiVars, usageVars>>

\* the fetch of /punishment-status throws: checkCachedPunishmentStatus() is
\* awaited (lines 151-154)
PunishmentStatusError(i) ==
  /\ syncs[i].pc = "punishment"
  /\ syncs' = [syncs EXCEPT ![i].pc = "cachedInCheck"]
  /\ UNCHANGED <<initialized, ruleVars, storage, lastRequest, strikesInFlight,
                 aiVars, usageVars>>

\* checkCachedPunishmentStatus(), from the moment its storage read has
\* resolved (lines 161-177); its caller then goes on
CachedPunishmentStatusRead(i) ==
  /\ syncs[i].pc \in {"cachedInCatch", "cachedInCheck"}
  /\ IF storage.punishmentState # NONE
       THEN LET status == storage.punishmentState[1]
                locked == status.is_locked /\ status.lock_time_remaining > 0
            IN /\ isPunishmentLocked' = locked
               /\ listeners' =
                    IF locked /\ ~isPunishmentLocked
                      THEN startPunishmentBlocking(listeners)
                    ELSE IF ~locked /\ isPunishmentLocked
                      THEN stopPunishmentBlocking(listeners)
                    ELSE listeners
     ELSE UNCHANGED <<isPunishmentLocked, listeners>>
  /\ syncs' = [syncs EXCEPT ![i] =
                 IF syncs[i].pc = "cachedInCatch" THEN IDLE_SYNC
                 ELSE [syncs[i] EXCEPT !.pc = "cache"]]
  /\ UNCHANGED <<initialized, isBlocking, blockedSites, alwaysBlockedSites,
                 whitelistedUrls, blockCount, appConnected, storage,
                 lastRequest, strikesInFlight, aiVars, usageVars>>

\* /nsfw-cache answered OK (lines 539-545): with a checked_domains array the
\* set is replaced and written to the storage
AICacheOk(i, body) ==
  /\ syncs[i].pc = "cache"
  /\ IF body # NONE
       THEN /\ aiCheckedDomains' = body[1]
            /\ storage' = [storage EXCEPT !.aiCheckedDomains = body]
            /\ syncs' = [syncs EXCEPT ![i].pc = "cacheStored"]
     ELSE /\ syncs' = [syncs EXCEPT ![i] = IDLE_SYNC]
          /\ UNCHANGED <<aiCheckedDomains, storage>>
  /\ UNCHANGED <<initialized, ruleVars, lastRequest, strikesInFlight,
                 classified, aiCheckInProgress, checks, lastTabUpdate,
                 usageVars>>

\* /nsfw-cache answered non-OK, or its fetch throws: the invocation ends
AICacheFailed(i) ==
  /\ syncs[i].pc = "cache"
  /\ syncs' = [syncs EXCEPT ![i] = IDLE_SYNC]
  /\ UNCHANGED <<initialized, ruleVars, storage, lastRequest, strikesInFlight,
                 aiVars, usageVars>>

\* the storage.set of syncAICache has resolved: the invocation ends
AICacheStored(i) ==
  /\ syncs[i].pc = "cacheStored"
  /\ syncs' = [syncs EXCEPT ![i] = IDLE_SYNC]
  /\ UNCHANGED <<initialized, ruleVars, storage, lastRequest, strikesInFlight,
                 aiVars, usageVars>>

(***************************************************************************)
(* Classification of loaded pages: tabs.onUpdated and checkPageContent.    *)
(***************************************************************************)
HasIdleCheck == \E c \in CheckIds : checks[c].pc = "idle"
IdleCheck == CHOOSE c \in CheckIds :
               /\ checks[c].pc = "idle"
               /\ \A d \in CheckIds : checks[d].pc = "idle" => c <= d

\* A faulty shouldCheckDomain that forgets the checks in progress.
shouldCheckDomainIgnoringInProgress(domain) ==
  /\ domain # <<>>
  /\ domain \notin aiCheckedDomains
  /\ domain \notin {LOOPBACK_IP, LOCALHOST}
  /\ ~endsWith(domain, DOT_LOCAL)
  /\ ~(/\ buildAlwaysBlockPattern # NO_PATTERN
       /\ patternTest(buildAlwaysBlockPattern, SCHEME_HTTPS \o domain))
  /\ ~(/\ buildBlockPattern # NO_PATTERN
       /\ patternTest(buildBlockPattern, SCHEME_HTTPS \o domain))

\* a shouldCheckDomain that looks at the session list only while blocking
shouldCheckDomainSessionListOnlyWhileBlocking(domain) ==
  /\ domain # <<>>
  /\ domain \notin aiCheckedDomains
  /\ domain \notin aiCheckInProgress
  /\ domain \notin {LOOPBACK_IP, LOCALHOST}
  /\ ~endsWith(domain, DOT_LOCAL)
  /\ ~(/\ buildAlwaysBlockPattern # NO_PATTERN
       /\ patternTest(buildAlwaysBlockPattern, SCHEME_HTTPS \o domain))
  /\ ~(/\ isBlocking
       /\ buildBlockPattern # NO_PATTERN
       /\ patternTest(buildBlockPattern, SCHEME_HTTPS \o domain))

shouldCheckDomain(domain) ==
  /\ domain # <<>>
  /\ domain \notin aiCheckedDomains
  /\ domain \notin aiCheckInProgress
  /\ domain \notin {LOOPBACK_IP, LOCALHOST}
  /\ ~endsWith(domain, DOT_LOCAL)
  /\ ~(/\ buildAlwaysBlockPattern # NO_PATTERN
       /\ patternTest(buildAlwaysBlockPattern, SCHEME_HTTPS \o domain))
  /\ ~(/\ buildBlockPattern # NO_PATTERN
       /\ patternTest(buildBlockPattern, SCHEME_HTTPS \o domain))

isInternalPage(url) == \E prefix \in INTERNAL_PREFIXES : startsWith(url, prefix)

\* checkPageContent from `if (!shouldCheckDomain(domain)) return` (line 632)
\* to the call of extractPageSignals; entry is the invocation as it stands
CheckDomain(c, entry) ==
  IF shouldCheckDomain(extractDomain(entry.url))
    THEN /\ aiCheckInProgress' = aiCheckInProgress \cup {extractDomain(entry.url)}
         /\ checks' = [checks EXCEPT ![c] = [entry EXCEPT !.pc = "extract"]]
  ELSE /\ checks' = [checks EXCEPT ![c] = IDLE_CHECK]
       /\ UNCHANGED aiCheckInProgress

\* tabs.onUpdated with status 'complete' for a tab showing url (lines
\* 862-874), and checkPageContent up to its first await
PageLoaded(url) ==
  /\ HasIdleCheck
  /\ LET entry == [IDLE_CHECK EXCEPT !.url = url]
     IN IF isInternalPage(url) \/ extractDomain(url) = <<>>
          THEN UNCHANGED <<aiCheckInProgress, checks>>
        ELSE IF ~appConnected
          THEN /\ checks' = [checks EXCEPT ![IdleCheck] = [entry EXCEPT !.pc = "ping"]]
               /\ UNCHANGED aiCheckInProgress
        ELSE CheckDomain(IdleCheck, entry)
  /\ UNCHANGED <<initialized, ruleVars, storage, lastRequest, strikesInFlight,
                 syncVars, aiCheckedDomains, classified, lastTabUpdate, usageVars>>

\* /ping answered (ok) or answered non-OK or not at all (~ok)
PingAnswered(c, ok) ==
  /\ checks[c].pc = "ping"
  /\ appConnected' = (ok \/ appConnected)
  /\ IF appConnected'
       THEN CheckDomain(c, checks[c])
     ELSE /\ checks' = [checks EXCEPT ![c] = IDLE_CHECK]
          /\ UNCHANGED aiCheckInProgress
  /\ UNCHANGED <<initialized, isBlocking, blockedSites, alwaysBlockedSites,
                 whitelistedUrls, blockCount, isPunishmentLocked, listeners,
                 storage, lastRequest, strikesInFlight, syncVars,
                 aiCheckedDomains, classified, lastTabUpdate, usageVars>>

\* extractPageSignals has returned signals or null: POST /check-content is sent
ExtractAnswered(c) ==
  /\ checks[c].pc = "extract"
  /\ checks' = [checks EXCEPT ![c].pc = "checkContent"]
  /\ UNCHANGED <<initialized, ruleVars, storage, lastRequest, strikesInFlight,
                 syncVars, aiCheckedDomains, classified, aiCheckInProgress, lastTabUpdate,
                 usageVars>>

\* the finally block (lines 694-696)
FinishCheck(c) ==
  /\ aiCheckInProgress' = aiCheckInProgress \ {extractDomain(checks[c].url)}
  /\ checks' = [checks EXCEPT ![c] = IDLE_CHECK]

\* tabs.update and reportAdultStrike (lines 682-687), then the finally block
RedirectTab(c) ==
  /\ strikesInFlight < MaxStrikesInFlight
  /\ lastTabUpdate' = [url |-> checks[c].url, marker |-> "adult+ai"]
  /\ strikesInFlight' = strikesInFlight + 1
  /\ FinishCheck(c)

\* A faulty handling of an NSFW result that appends the domain unconditionally.
HandleNsfwAlwaysPushing(c, result) ==
  IF result.is_nsfw
    THEN /\ alwaysBlockedSites' =
              Append(alwaysBlockedSites, extractDomain(checks[c].url))
         /\ storage' = [storage EXCEPT
                          !.alwaysBlockedSites = Some(alwaysBlockedSites')]
         /\ checks' = [checks EXCEPT ![c].pc = "blockedStored",
                                      ![c].result = result]
         /\ UNCHANGED <<lastTabUpdate, strikesInFlight, aiCheckInProgress>>
  ELSE /\ FinishCheck(c)
       /\ UNCHANGED <<alwaysBlockedSites, storage, lastTabUpdate, strikesInFlight>>

\* `if (result.is_nsfw)` (lines 672-688)
HandleNsfw(c, result) ==
  IF result.is_nsfw
    THEN IF ~arrayIncludes(alwaysBlockedSites, extractDomain(checks[c].url))
           THEN /\ alwaysBlockedSites' =
                     Append(alwaysBlockedSites, extractDomain(checks[c].url))
                /\ storage' = [storage EXCEPT
                                 !.alwaysBlockedSites = Some(alwaysBlockedSites')]
                /\ checks' = [checks EXCEPT ![c].pc = "blockedStored",
                                             ![c].result = result]
                /\ UNCHANGED <<lastTabUpdate, strikesInFlight, aiCheckInProgress>>
         ELSE /\ RedirectTab(c)
              /\ UNCHANGED <<alwaysBlockedSites, storage>>
  ELSE /\ FinishCheck(c)
       /\ UNCHANGED <<alwaysBlockedSites, storage, lastTabUpdate, strikesInFlight>>

\* a checkPageContent that caches the domain whatever the method is
CheckContentOkCachingAlways(c, result) ==
  /\ checks[c].pc = "checkContent"
  /\ aiCheckedDomains' = aiCheckedDomains \cup {extractDomain(checks[c].url)}
  /\ classified' = classified \cup {extractDomain(checks[c].url)}
  /\ storage' = [storage EXCEPT !.aiCheckedDomains = Some(aiCheckedDomains')]
  /\ checks' = [checks EXCEPT ![c].pc = "checkedStored", ![c].result = result]
  /\ UNCHANGED <<alwaysBlockedSites, lastTabUpdate, strikesInFlight,
                 aiCheckInProgress>>
  /\ UNCHANGED <<initialized, isBlocking, blockedSites, whitelistedUrls,
                 blockCount, appConnected, isPunishmentLocked, listeners,
                 lastRequest, syncVars, usageVars>>

\* /check-content answered OK with body result (lines 660-670)
CheckContentOk(c, result) ==
  /\ checks[c].pc = "checkContent"
  /\ IF result.method \notin {"disabled", "no_api_key"}
       THEN /\ aiCheckedDomains' =
                 aiCheckedDomains \cup {extractDomain(checks[c].url)}
            /\ classified' = classified \cup {extractDomain(checks[c].url)}
            /\ storage' = [storage EXCEPT !.aiCheckedDomains = Some(aiCheckedDomains')]
            /\ checks' = [checks EXCEPT ![c].pc = "checkedStored",
                                         ![c].result = result]
            /\ UNCHANGED <<alwaysBlockedSites, lastTabUpdate, strikesInFlight,
                           aiCheckInProgress>>
     ELSE /\ HandleNsfw(c, result)
          /\ UNCHANGED <<aiCheckedDomains, classified>>
  /\ UNCHANGED <<initialized, isBlocking, blockedSites, whitelistedUrls,
                 blockCount, appConnected, isPunishmentLocked, listeners,
                 lastRequest, syncVars, usageVars>>

\* the write of aiCheckedDomains to the storage has completed
CheckedStored(c) ==
  /\ checks[c].pc = "checkedStored"
  /\ HandleNsfw(c, checks[c].result)
  /\ UNCHANGED <<initialized, isBlocking, blockedSites, whitelistedUrls,
                 blockCount, appConnected, isPunishmentLocked, listeners,
                 lastRequest, syncVars, aiCheckedDomains, classified, usageVars>>

\* the write of alwaysBlockedSites to the storage has completed
BlockedStored(c) ==
  /\ checks[c].pc = "blockedStored"
  /\ RedirectTab(c)
  /\ UNCHANGED <<initialized, ruleVars, storage, lastRequest, syncVars,
                 aiCheckedDomains, classified, usageVars>>

\* a checkPageContent without the finally block
CheckContentFailedKeepingMarker(c) ==
  /\ checks[c].pc = "checkContent"
  /\ checks' = [checks EXCEPT ![c] = IDLE_CHECK]
  /\ UNCHANGED <<initialized, ruleVars, storage, lastRequest, strikesInFlight,
                 syncVars, aiCheckedDomains, classified, aiCheckInProgress, lastTabUpdate,
                 usageVars>>

\* a checkPageContent that marks the domain as checked when the call fails
CheckContentFailedCachingDomain(c) ==
  /\ checks[c].pc = "checkContent"
  /\ aiCheckedDomains' = aiCheckedDomains \cup {extractDomain(checks[c].url)}
  /\ FinishCheck(c)
  /\ UNCHANGED <<initialized, ruleVars, storage, lastRequest, strikesInFlight,
                 syncVars, classified, lastTabUpdate, usageVars>>

\* /check-content answered non-OK, or its fetch throws (lines 689-696)
CheckContentFailed(c) ==
  /\ checks[c].pc = "checkContent"
  /\ FinishCheck(c)
  /\ UNCHANGED <<initialized, ruleVars, storage, lastRequest, strikesInFlight,
                 syncVars, aiCheckedDomains, classified, lastTabUpdate, usageVars>>

(***************************************************************************)
(* Usage reports: reportWebsiteUsage and flushUsageQueue.  A report is the *)
(* object {domain, seconds}; id tells the objects apart.  An invocation of *)
(* flushUsageQueue is the part of its local copy of the queue it has not   *)
(* gone through yet, the head being the report whose POST is in flight.    *)
(***************************************************************************)
HasIdleFlush == \E f \in FlushIds : flushes[f] = <<>>
IdleFlush == CHOOSE f \in FlushIds :
               /\ flushes[f] = <<>>
               /\ \A g \in FlushIds : flushes[g] = <<>> => f <= g

\* reportWebsiteUsage(domain, seconds) up to its await: POST /usage/website
reportWebsiteUsage(domain, seconds) ==
  /\ nextReportId <= MaxReports
  /\ IF domain = <<>> \/ seconds <= 0
       THEN UNCHANGED <<sending, nextReportId>>
     ELSE /\ sending' = sending \cup {[id |-> nextReportId, domain |-> domain,
                                       seconds |-> seconds]}
          /\ nextReportId' = nextReportId + 1

\* a call of reportWebsiteUsage with any arguments
ReportWebsiteUsage(domain, seconds) ==
  /\ reportWebsiteUsage(domain, seconds)
  /\ UNCHANGED <<initialized, ruleVars, storage, lastRequest, strikesInFlight,
                 syncVars, aiVars, usageReportQueue, flushes, delivered,
                 firstQueued>>
  /\ UNCHANGED trackVars

\* flushUsageQueue() up to its first await (lines 745-752)
EnterFlushUsageQueue(queue) ==
  IF Len(queue) = 0
    THEN /\ usageReportQueue' = queue
         /\ UNCHANGED flushes
  ELSE /\ HasIdleFlush
       /\ flushes' = [flushes EXCEPT ![IdleFlush] = queue]
       /\ usageReportQueue' = <<>>

\* the POST of reportWebsiteUsage answered OK: flushUsageQueue() is called
ReportDeliveryOk(report) ==
  /\ report \in sending
  /\ sending' = sending \ {report}
  /\ delivered' = delivered \cup {report.id}
  /\ EnterFlushUsageQueue(usageReportQueue)
  /\ UNCHANGED <<initialized, ruleVars, storage, lastRequest, strikesInFlight,
                 syncVars, aiVars, nextReportId, firstQueued>>
  /\ UNCHANGED trackVars

\* the POST of reportWebsiteUsage answered non-OK, or its fetch throws
ReportDeliveryFailed(report) ==
  /\ report \in sending
  /\ sending' = sending \ {report}
  /\ usageReportQueue' = Append(usageReportQueue, report)
  /\ UNCHANGED <<initialized, ruleVars, storage, lastRequest, strikesInFlight,
                 syncVars, aiVars, flushes, nextReportId, delivered>>
  /\ firstQueued' = Append(firstQueued, report.id)
  /\ UNCHANGED trackVars

\* setInterval(flushUsageQueue, 30000) fires
FlushTimer ==
  /\ EnterFlushUsageQueue(usageReportQueue)
  /\ UNCHANGED <<initialized, ruleVars, storage, lastRequest, strikesInFlight,
                 syncVars, aiVars, sending, nextReportId, delivered,
                 firstQueued>>
  /\ UNCHANGED trackVars

\* the POST of the loop answered OK: on to the next report
FlushDeliveryOk(f) ==
  /\ flushes[f] # <<>>
  /\ delivered' = delivered \cup {Head(flushes[f]).id}
  /\ flushes' = [flushes EXCEPT ![f] = Tail(flushes[f])]
  /\ UNCHANGED <<initialized, ruleVars, storage, lastRequest, strikesInFlight,
                 syncVars, aiVars, usageReportQueue, sending, nextReportId,
                 firstQueued>>
  /\ UNCHANGED trackVars

\* the POST of the loop answered non-OK: re-queued, on to the next report
FlushDeliveryNotOk(f) ==
  /\ flushes[f] # <<>>
  /\ usageReportQueue' = Append(usageReportQueue, Head(flushes[f]))
  /\ flushes' = [flushes EXCEPT ![f] = Tail(flushes[f])]
  /\ UNCHANGED <<initialized, ruleVars, storage, lastRequest, strikesInFlight,
                 syncVars, aiVars, sending, nextReportId, delivered,
                 firstQueued>>
  /\ UNCHANGED trackVars

\* the fetch of the loop throws: re-queued, and `break` leaves the loop
FlushDeliveryError(f) ==
  /\ flushes[f] # <<>>
  /\ usageReportQueue' = Append(usageReportQueue, Head(flushes[f]))
  /\ flushes' = [flushes EXCEPT ![f] = <<>>]
  /\ UNCHANGED <<initialized, ruleVars, storage, lastRequest, strikesInFlight,
                 syncVars, aiVars, sending, nextReportId, delivered,
                 firstQueued>>
  /\ UNCHANGED trackVars

(***************************************************************************)
(* The usage tracker: trackActiveTab, periodicUsageReport and the          *)
(* listener of windows.onFocusChanged.  The session is currentDomain and   *)
(* trackingStartTime.                                                      *)
(***************************************************************************)
\* Math.floor((Date.now() - trackingStartTime) / 1000)
elapsedSeconds == (now - trackingStartTime[1]) \div 2

\* `if (currentDomain && trackingStartTime)` with the report of the body
ReportOpenSession ==
  IF currentDomain # NONE /\ trackingStartTime # NONE /\ elapsedSeconds > 0
    THEN reportWebsiteUsage(currentDomain[1], elapsedSeconds)
  ELSE UNCHANGED <<sending, nextReportId>>

\* time passes
TimePasses(ticks) ==
  /\ now + ticks <= MaxClock
  /\ now' = now + ticks
  /\ UNCHANGED <<initialized, ruleVars, storage, lastRequest, strikesInFlight,
                 syncVars, aiVars, usageReportQueue, sending, flushes,
                 nextReportId, delivered, firstQueued, currentDomain,
                 trackingStartTime, windowFocused, trackQueries,
                 sessionOpenedAt, sessionReported>>

\* trackActiveTab() is called (tab activated, URL of the active tab changed,
\* start of the tracking) and awaits tabs.query
TrackActiveTab ==
  /\ trackQueries < MaxQueries
  /\ trackQueries' = trackQueries + 1
  /\ UNCHANGED <<initialized, ruleVars, storage, lastRequest, strikesInFlight,
                 syncVars, aiVars, usageReportQueue, sending, flushes,
                 nextReportId, delivered, firstQueued, currentDomain,
                 trackingStartTime, now, windowFocused, sessionOpenedAt,
                 sessionReported>>

\* tabs.query answered: tab is NONE (no active tab, or one without URL) or
\* the URL of the active tab
TabsQueryAnswered(tab) ==
  /\ trackQueries > 0
  /\ trackQueries' = trackQueries - 1
  /\ IF tab = NONE
       THEN /\ ReportOpenSession
            /\ currentDomain' = NONE
            /\ trackingStartTime' = NONE
            /\ sessionOpenedAt' = NONE
            /\ sessionReported' = 0
     ELSE IF isInternalPage(tab[1]) \/ extractDomain(tab[1]) = <<>>
       THEN UNCHANGED <<sending, nextReportId, currentDomain, trackingStartTime,
                        sessionOpenedAt, sessionReported>>
     ELSE IF Some(extractDomain(tab[1])) # currentDomain
       THEN /\ ReportOpenSession
            /\ currentDomain' = Some(extractDomain(tab[1]))
            /\ trackingStartTime' = Some(now)
            /\ sessionOpenedAt' = Some(now)
            /\ sessionReported' = 0
     ELSE UNCHANGED <<sending, nextReportId, currentDomain, trackingStartTime,
                      sessionOpenedAt, sessionReported>>
  /\ UNCHANGED <<initialized, ruleVars, storage, lastRequest, strikesInFlight,
                 syncVars, aiVars, usageReportQueue, flushes, delivered,
                 firstQueued, now, windowFocused>>

\* a periodicUsageReport that does not reset trackingStartTime
PeriodicUsageReportKeepingStart ==
  /\ IF currentDomain # NONE /\ trackingStartTime # NONE /\ elapsedSeconds >= 10
       THEN /\ reportWebsiteUsage(currentDomain[1], elapsedSeconds)
            /\ sessionReported' = sessionReported + elapsedSeconds
     ELSE UNCHANGED <<sending, nextReportId, sessionReported>>
  /\ UNCHANGED <<initialized, ruleVars, storage, lastRequest, strikesInFlight,
                 syncVars, aiVars, usageReportQueue, flushes, delivered,
                 firstQueued, currentDomain, trackingStartTime, now,
                 windowFocused, trackQueries, sessionOpenedAt>>

\* setInterval(periodicUsageReport, 15000) fires
PeriodicUsageReport ==
  /\ IF currentDomain # NONE /\ trackingStartTime # NONE /\ elapsedSeconds >= 10
       THEN /\ reportWebsiteUsage(currentDomain[1], elapsedSeconds)
            /\ trackingStartTime' = Some(now)
            /\ sessionReported' = sessionReported + elapsedSeconds
     ELSE UNCHANGED <<sending, nextReportId, trackingStartTime, sessionReported>>
  /\ UNCHANGED <<initialized, ruleVars, storage, lastRequest, strikesInFlight,
                 syncVars, aiVars, usageReportQueue, flushes, delivered,
                 firstQueued, currentDomain, now, windowFocused, trackQueries,
                 sessionOpenedAt>>

\* windows.onFocusChanged with WINDOW_ID_NONE: the browser lost the focus
WindowFocusLost ==
  /\ windowFocused
  /\ windowFocused' = FALSE
  /\ ReportOpenSession
  /\ sessionReported' =
       IF currentDomain # NONE /\ trackingStartTime # NONE /\ elapsedSeconds > 0
         THEN sessionReported + elapsedSeconds
       ELSE sessionReported
  /\ IF currentDomain # NONE /\ trackingStartTime # NONE
       THEN trackingStartTime' = Some(now)
     ELSE UNCHANGED trackingStartTime
  /\ UNCHANGED <<initialized, ruleVars, storage, lastRequest, strikesInFlight,
                 syncVars, aiVars, usageReportQueue, flushes, delivered,
                 firstQueued, currentDomain, now, trackQueries,
                 sessionOpenedAt>>

\* windows.onFocusChanged with the id of a window: trackActiveTab() is called
WindowFocusGained ==
  /\ ~windowFocused
  /\ windowFocused' = TRUE
  /\ trackQueries < MaxQueries
  /\ trackQueries' = trackQueries + 1
  /\ UNCHANGED <<initialized, ruleVars, storage, lastRequest, strikesInFlight,
                 syncVars, aiVars, usageReportQueue, sending, flushes,
                 nextReportId, delivered, firstQueued, currentDomain,
                 trackingStartTime, now, sessionOpenedAt, sessionReported>>

(***************************************************************************)
(* The rules in isolation: persisted lists of any content are loaded, the  *)
(* popup toggles session blocking, and the browser calls the registered    *)
(* listeners for navigations.                                              *)
(***************************************************************************)
InitRules ==
  /\ ScriptLoaded
  /\ storage \in RuleStorageImages

NextRules ==
  \/ Initialize
  \/ ManualToggle
  \/ ResetCount
  \/ ReportAdultStrikeAnswered
  \/ \E url \in Urls : BlockRequest(url)
  \/ \E url \in Urls : AlwaysBlockRequest(url)
  \/ \E url \in Urls : PunishmentBlockRequest(url)

SpecRules == InitRules /\ [][NextRules]_vars

(***************************************************************************)
(* The poll loop: overlapping invocations of syncWithApp against a server  *)
(* that may answer anything or not at all, the popup's manual toggle, and  *)
(* navigations handled by the registered listeners.                        *)
(***************************************************************************)
SyncStorageImages ==
  [blockedSites : {NONE},
   alwaysBlockedSites : {NONE},
   whitelistedUrls : {NONE},
   blockCount : {0},
   punishmentState : {NONE, Some(LOCKED_RECORD)},
   aiCheckedDomains : {NONE}]

InitSync ==
  /\ ScriptLoaded
  /\ storage \in SyncStorageImages

SyncStep(i) ==
  \/ \E b \in BOOLEAN : SyncStatusOk(i, b)
  \/ SyncStatusNotOk(i)
  \/ SyncStatusError(i)
  \/ \E data \in {SITES_FULL, SITES_EMPTY} : SitesOk(i, data)
  \/ SitesFailed(i)
  \/ SitesStored(i)
  \/ \E status \in {UNLOCKED_RECORD, LOCKED_RECORD} : PunishmentStatusOk(i, status)
  \/ PunishmentStatusStored(i)
  \/ PunishmentStatusNotOk(i)
  \/ PunishmentStatusError(i)
  \/ CachedPunishmentStatusRead(i)
  \/ \E body \in {NONE, Some({}), Some({D_EXAMPLE})} : AICacheOk(i, body)
  \/ AICacheFailed(i)
  \/ AICacheStored(i)

NextSync ==
  \/ Initialize
  \/ StartSync
  \/ \E i \in SyncIds : SyncStep(i)
  \/ ManualToggle

SpecSync == InitSync /\ [][NextSync]_vars

(***************************************************************************)
(* The always-block listener with a persisted permanent list, under the    *)
(* first poll of a server that answers /status either way or not at all,   *)
(* answers /sites or not, and fails the other endpoints.                   *)
(***************************************************************************)
InitAlwaysBlock ==
  /\ ScriptLoaded
  /\ storage \in [blockedSites : {NONE},
                  alwaysBlockedSites : {Some(<<D_YT_MIXED>>)},
                  whitelistedUrls : {NONE, Some(<<W_WWW_YT>>)},
                  blockCount : {0},
                  punishmentState : {NONE},
                  aiCheckedDomains : {NONE}]

NextAlwaysBlock ==
  \/ Initialize
  \/ \E i \in SyncIds :
       \/ \E b \in BOOLEAN : SyncStatusOk(i, b)
       \/ SyncStatusNotOk(i)
       \/ SyncStatusError(i)
       \/ SitesOk(i, SITES_FULL)
       \/ SitesFailed(i)
       \/ SitesStored(i)
       \/ PunishmentStatusNotOk(i)
       \/ CachedPunishmentStatusRead(i)
       \/ AICacheFailed(i)
  \/ ManualToggle
  \/ ResetCount
  \/ ReportAdultStrikeAnswered
  \/ \E url \in {U_YT_A, U_WWW_YT, U_EXAMPLE} : AlwaysBlockRequest(url)

SpecAlwaysBlock == InitAlwaysBlock /\ [][NextAlwaysBlock]_vars

(***************************************************************************)
(* The classification of loaded pages, next to the first poll cycle: the   *)
(* server answers /ping or not, answers /check-content with any result or  *)
(* fails it, may list e.org as always blocked, and reports no domain as    *)
(* checked.  Strike reports stay unanswered.                               *)
(***************************************************************************)
PageUrls == {U_EXAMPLE, U_SUB_YT, U_EXT_PAGE}

InitClassify ==
  /\ ScriptLoaded
  /\ storage \in [blockedSites : {NONE},
                  alwaysBlockedSites : {Some(<<D_YT_MIXED>>)},
                  whitelistedUrls : {NONE},
                  blockCount : {0},
                  punishmentState : {NONE},
                  aiCheckedDomains : {NONE}]

NextClassify ==
  \/ Initialize
  \/ \E url \in PageUrls : PageLoaded(url)
  \/ \E c \in CheckIds :
       \/ \E ok \in BOOLEAN : PingAnswered(c, ok)
       \/ ExtractAnswered(c)
       \/ \E result \in CheckResults : CheckContentOk(c, result)
       \/ CheckContentFailed(c)
       \/ CheckedStored(c)
       \/ BlockedStored(c)
  \/ \E i \in SyncIds :
       \/ SyncStatusOk(i, TRUE)
       \/ SyncStatusError(i)
       \/ SitesOk(i, SITES_ADULT_EXAMPLE)
       \/ SitesStored(i)
       \/ PunishmentStatusNotOk(i)
       \/ CachedPunishmentStatusRead(i)
       \/ AICacheOk(i, Some({}))
       \/ AICacheStored(i)

SpecClassify == InitClassify /\ [][NextClassify]_vars

(***************************************************************************)
(* Page loads of every kind of domain: one that no list names, domains of  *)
(* the session list and of the permanent list, loopback hosts and a .local *)
(* host.  The server is reached through /ping only, the popup toggles      *)
(* session blocking while it is not, and the classifier finds every page   *)
(* safe (SpecClassify has the unsafe ones).                                *)
(***************************************************************************)
CheckUrls == {U_SUB_YT, U_EXAMPLE, U_YT_A, U_LOOPBACK, U_LOCALHOST,
              SCHEME_HTTP \o <<"p">> \o DOT_LOCAL \o SLASH}

InitShouldCheck ==
  /\ ScriptLoaded
  /\ storage = [blockedSites |-> NONE,
                alwaysBlockedSites |-> Some(<<D_EXAMPLE>>),
                whitelistedUrls |-> NONE,
                blockCount |-> 0,
                punishmentState |-> NONE,
                aiCheckedDomains |-> NONE]

NextShouldCheck ==
  \/ Initialize
  \/ ManualToggle
  \/ \E url \in CheckUrls : PageLoaded(url)
  \/ \E c \in CheckIds :
       \/ \E ok \in BOOLEAN : PingAnswered(c, ok)
       \/ ExtractAnswered(c)
       \/ \E result \in [is_nsfw : {FALSE}, method : {"heuristic", "disabled"}] :
            CheckContentOk(c, result)
       \/ CheckContentFailed(c)
       \/ CheckedStored(c)

SpecShouldCheck == InitShouldCheck /\ [][NextShouldCheck]_vars

(***************************************************************************)
(* The usage reports: the tracker reports dwell times of any length, the   *)
(* server accepts a POST, rejects it or cannot be reached, and the flush   *)
(* timer fires at any time.                                                *)
(***************************************************************************)
InitUsage ==
  /\ ScriptLoaded
  /\ storage \in SyncStorageImages

NextUsage ==
  \/ \E domain \in {<<>>, D_EXAMPLE, D_YT}, seconds \in {0, 1, 10} :
       ReportWebsiteUsage(domain, seconds)
  \/ \E report \in sending : ReportDeliveryOk(report)
  \/ \E report \in sending : ReportDeliveryFailed(report)
  \/ FlushTimer
  \/ \E f \in FlushIds :
       \/ FlushDeliveryOk(f)
       \/ FlushDeliveryNotOk(f)
       \/ FlushDeliveryError(f)

SpecUsage == InitUsage /\ [][NextUsage]_vars

(***************************************************************************)
(* The tracker alone: the user activates tabs of two sites, of an          *)
(* extension page or none, the window loses and regains the focus, time    *)
(* passes in stretches of 1.5 or of 10 seconds, and the server accepts     *)
(* every report.                                                           *)
(***************************************************************************)
NextTracker ==
  \/ \E ticks \in {3, 20} : TimePasses(ticks)
  \/ TrackActiveTab
  \/ \E tab \in {NONE, Some(U_EXAMPLE), Some(U_YT_A), Some(U_EXT_PAGE)} :
       TabsQueryAnswered(tab)
  \/ PeriodicUsageReport
  \/ WindowFocusLost
  \/ WindowFocusGained
  \/ \E report \in sending : ReportDeliveryOk(report)

SpecTracker == InitUsage /\ [][NextTracker]_vars

(***************************************************************************)
(* The server stays unreachable: every fetch of /status throws, so every   *)
(* poll cycle falls back to the cached punishment record, whatever record  *)
(* was persisted before the start.  The timer keeps firing, a fetch        *)
(* against the absent server fails in the end, and a storage read          *)
(* resolves.                                                               *)
(***************************************************************************)
InitOffline ==
  /\ ScriptLoaded
  /\ storage \in [blockedSites : {NONE},
                  alwaysBlockedSites : {NONE},
                  whitelistedUrls : {NONE},
                  blockCount : {0},
                  punishmentState : {NONE} \cup {Some(r) : r \in PunishmentRecords},
                  aiCheckedDomains : {NONE}]

NextOffline ==
  \/ Initialize
  \/ StartSync
  \/ \E i \in SyncIds : SyncStatusError(i)
  \/ \E i \in SyncIds : CachedPunishmentStatusRead(i)
  \/ ManualToggle

SpecOffline ==
  /\ InitOffline
  /\ [][NextOffline]_vars
  /\ WF_vars(Initialize)
  /\ WF_vars(StartSync)
  /\ \A i \in SyncIds : /\ WF_vars(SyncStatusError(i))
                        /\ WF_vars(CachedPunishmentStatusRead(i))

(***************************************************************************)
(* Vocabulary of the properties: hosts and listed domains.                 *)
(***************************************************************************)
IsHttpUrl(url) ==
  \/ startsWith(toLowerCase(url), SCHEME_HTTP)
  \/ startsWith(toLowerCase(url), SCHEME_HTTPS)

\* The host of an http/https URL, lower-cased.
hostOf(url) == upToHostEnd(replaceProtocol(toLowerCase(url)))

\* The domain a list entry stands for: no scheme, no www., lower case.
domainOf(entry) == replaceWww(replaceProtocol(toLowerCase(entry)))

\* host is the domain d, or a subdomain of it (www.d, sub.d, ...)
IsDomainOrSubdomain(host, d) == host = d \/ endsWith(host, <<".">> \o d)

\* url is an http/https URL whose host is a listed domain or a subdomain of one
HostListed(sites, url) ==
  /\ IsHttpUrl(url)
  /\ \E i \in 1..Len(sites) : IsDomainOrSubdomain(hostOf(url), domainOf(sites[i]))

IsExtensionPage(url) == startsWith(url, EXTENSION_BASE)
IsLoopbackHost(url) == IsHttpUrl(url) /\ hostOf(url) \in {LOOPBACK_IP, LOCALHOST}

(***************************************************************************)
(* C1. No usage report is dropped: every report object created so far has  *)
(* been accepted by the server, or is being delivered by                   *)
(* reportWebsiteUsage, or is in usageReportQueue, or is in the part of its *)
(* batch that an invocation of flushUsageQueue has still to go through.    *)
(***************************************************************************)
C1_NoReportDropped ==
  \A id \in 1..(nextReportId - 1) :
    \/ id \in delivered
    \/ \E report \in sending : report.id = id
    \/ \E k \in 1..Len(usageReportQueue) : usageReportQueue[k].id = id
    \/ \E f \in FlushIds : \E k \in 1..Len(flushes[f]) : flushes[f][k].id = id

(***************************************************************************)
(* C9. Classification dedup: in every state at most one invocation of      *)
(* checkPageContent per domain is waiting for the answer of                *)
(* /check-content, however page loads of the domain interleave, also when  *)
(* invocations for the domain are suspended in the /ping request while     *)
(* another one has marked the domain as in progress.                       *)
(***************************************************************************)
C9_OneCheckContentCallPerDomain ==
  \A c, d \in CheckIds :
    (c # d /\ checks[c].pc = "checkContent" /\ checks[d].pc = "checkContent")
      => extractDomain(checks[c].url) # extractDomain(checks[d].url)

C9_Witness ==
  \E c, d \in CheckIds :
    /\ checks[c].pc = "checkContent"
    /\ checks[d].pc = "ping"
    /\ extractDomain(checks[c].url) = extractDomain(checks[d].url)
    /\ extractDomain(checks[c].url) \in aiCheckInProgress

(***************************************************************************)
(* C10. When /check-content answers OK with is_nsfw = true and a method    *)
(* other than disabled or no_api_key, the steps of checkPageContent that   *)
(* follow do this: the step taking the answer adds the domain to           *)
(* aiCheckedDomains; the next step leaves the domain exactly once in       *)
(* alwaysBlockedSites (appending it only if it is not there); and the step *)
(* ending the invocation redirects the tab to the blocked page with the    *)
(* marker adult+ai and sends one strike report, no other step of the       *)
(* invocation sending one.                                                 *)
(***************************************************************************)
C10_NsfwResultHandled ==
  [][\A c \in CheckIds :
       LET domain == extractDomain(checks[c].url)
           occurrences == Cardinality({k \in 1..Len(alwaysBlockedSites') :
                                         alwaysBlockedSites'[k] = domain})
           redirected ==
             /\ lastTabUpdate' = [url |-> checks[c].url, marker |-> "adult+ai"]
             /\ strikesInFlight' = strikesInFlight + 1
           untouched ==
             /\ lastTabUpdate' = lastTabUpdate
             /\ strikesInFlight' = strikesInFlight
       IN /\ (/\ checks[c].pc = "checkContent"
               /\ checks'[c].pc = "checkedStored"
               /\ checks'[c].result.is_nsfw)
                => /\ domain \in aiCheckedDomains'
                   /\ untouched
          /\ (/\ checks[c].pc = "checkedStored"
               /\ checks[c].result.is_nsfw
               /\ checks'[c].pc = "blockedStored")
                => /\ occurrences = 1
                   /\ untouched
          /\ (/\ checks[c].pc = "checkedStored"
               /\ checks[c].result.is_nsfw
               /\ checks'[c].pc = "idle")
                => /\ occurrences = 1
                   /\ redirected
          /\ (/\ checks[c].pc = "blockedStored"
               /\ checks[c].result.method \notin {"disabled", "no_api_key"}
               /\ checks'[c].pc = "idle")
                => /\ alwaysBlockedSites' = alwaysBlockedSites
                   /\ redirected]_vars

C10_Witness ==
  /\ lastTabUpdate = [url |-> U_EXAMPLE, marker |-> "adult+ai"]
  /\ D_EXAMPLE \in aiCheckedDomains
  /\ Cardinality({k \in 1..Len(alwaysBlockedSites) :
                    alwaysBlockedSites[k] = D_EXAMPLE}) = 1
  /\ strikesInFlight = 1
  /\ \A c \in CheckIds : checks[c].pc = "idle"

(***************************************************************************)
(* C2. Punishment supersedence: while the punishment lock is on, the       *)
(* punishment listener allows a navigation only if it goes to one of the   *)
(* extension's own pages or to the host 127.0.0.1 or localhost, and        *)
(* redirects every other URL.                                              *)
(***************************************************************************)
C2_PunishmentAllowsOnlyOwnAndLoopback ==
  (isPunishmentLocked /\ lastRequest.listener = "punishmentBlockRequest")
    => (lastRequest.result.redirect
          <=> ~(IsExtensionPage(lastRequest.url) \/ IsLoopbackHost(lastRequest.url)))

(***************************************************************************)
(* C3. When the fetch of /status of a poll cycle throws while isBlocking   *)
(* is true, the step that handles the failure leaves appConnected false,   *)
(* isBlocking false and the session-block listener removed, and the step   *)
(* that ends that cycle (the read of the cached punishment record) changes *)
(* none of the three.                                                      *)
(***************************************************************************)
C3_StatusFailureStopsBlocking ==
  [][\A i \in SyncIds :
       /\ (syncs[i].pc = "status" /\ syncs'[i].pc = "cachedInCatch" /\ isBlocking)
            => /\ ~appConnected'
               /\ ~isBlocking'
               /\ ~BagIn("blockRequest", listeners')
       /\ (syncs[i].pc = "cachedInCatch" /\ syncs'[i].pc = "idle")
            => /\ appConnected' = appConnected
               /\ isBlocking' = isBlocking
               /\ (BagIn("blockRequest", listeners')) = (BagIn("blockRequest", listeners))]_vars

C3_Witness ==
  \E i \in SyncIds :
    /\ syncs[i].pc = "cachedInCatch"
    /\ syncs[i].wasBlocking
    /\ ~appConnected
    /\ ~isBlocking
    /\ ~BagIn("blockRequest", listeners)

(***************************************************************************)
(* C4. The always-block listener ignores the whitelist and the session     *)
(* state: every URL that the matcher of the permanent list matches is      *)
(* redirected, the block counter goes up by one and one strike report is   *)
(* sent, whatever the whitelist, isBlocking and appConnected are.          *)
(***************************************************************************)
C4_AlwaysBlockIgnoresWhitelist ==
  [][(/\ lastRequest'.listener = "alwaysBlockRequest"
      /\ AlwaysBlockRequest(lastRequest'.url)
      /\ patternTest(buildAlwaysBlockPattern, lastRequest'.url))
       => /\ lastRequest'.result = Redirect("adult")
          /\ blockCount' = blockCount + 1
          /\ strikesInFlight' = strikesInFlight + 1]_vars

C4_Witness ==
  /\ lastRequest.listener = "alwaysBlockRequest"
  /\ lastRequest.result.redirect
  /\ isWhitelisted(lastRequest.url)
  /\ isBlocking
  /\ appConnected
  /\ blockCount > 0
  /\ strikesInFlight > 0

(***************************************************************************)
(* C5. For every domain D of the list a matcher is built from, the matcher *)
(* matches every http/https URL whose host is D, www.D or another          *)
(* subdomain of D.                                                         *)
(***************************************************************************)
C5_MatcherMatchesDomainAndSubdomains ==
  \A url \in Urls :
    HostListed(blockedSites, url) => patternTest(buildBlockPattern, url)

(***************************************************************************)
(* C6. No partial-token match: a matcher matches no URL whose host is      *)
(* neither a listed domain nor a subdomain of one.                         *)
(***************************************************************************)
C6_MatcherMatchesNothingElse ==
  \A url \in Urls :
    patternTest(buildBlockPattern, url) => HostListed(blockedSites, url)

(***************************************************************************)
(* C7. Whitelist precedence over session blocking: the session-block       *)
(* listener allows a URL that isWhitelisted accepts, also when the session *)
(* matcher matches it, and does not count it as blocked.                   *)
(***************************************************************************)
C7_WhitelistPrecedesSessionBlock ==
  [][(/\ lastRequest'.listener = "blockRequest"
      /\ BlockRequest(lastRequest'.url)
      /\ isWhitelisted(lastRequest'.url))
       => /\ lastRequest'.result = ALLOW
          /\ blockCount' = blockCount]_vars

C7_Witness ==
  /\ BagIn("blockRequest", listeners)
  /\ lastRequest.listener = "blockRequest"
  /\ isWhitelisted(lastRequest.url)
  /\ patternTest(buildBlockPattern, lastRequest.url)
  /\ lastRequest.result = ALLOW

(***************************************************************************)
(* C8. isWhitelisted.                                                      *)
(***************************************************************************)
IsPrefixOf(p, s) ==
  /\ Len(p) <= Len(s)
  /\ \A i \in 1..Len(p) : p[i] = s[i]

\* As claimed: the entry and the URL are both lower-cased and stripped of
\* scheme and leading www., and the entry equals or is a prefix of the URL.
FullyNormalizedAccepts(url, entry) == IsPrefixOf(domainOf(entry), domainOf(url))

\* C8 as claimed: isWhitelisted(url) is true exactly when some entry, fully
\* normalized, equals or is a prefix of the fully normalized URL.
C8_WhitelistedIffFullyNormalizedPrefix ==
  \A url \in Urls :
    isWhitelisted(url) <=>
      \E i \in 1..Len(whitelistedUrls) :
        FullyNormalizedAccepts(url, whitelistedUrls[i])

\* The three levels at which the script compares an entry with the URL.
AcceptsAtSomeLevel(url, entry) ==
  LET u == toLowerCase(url)
      e == toLowerCase(entry)
  IN \/ IsPrefixOf(e, u)
     \/ IsPrefixOf(replaceProtocol(e), replaceProtocol(u))
     \/ IsPrefixOf(domainOf(entry), domainOf(url))

\* C8 as amended: isWhitelisted(url) is true exactly when some entry,
\* lower-cased, equals or is a prefix of the lower-cased URL as written, or
\* after the scheme is dropped from both, or after the scheme and a leading
\* www. are dropped from both (false for an empty whitelist); and with the
\* whitelist [yt.com/w?a] and yt.com session-blocked, the session-block
\* listener allows https://yt.com/w?a and redirects https://yt.com/w?x.
C8_WhitelistedIffPrefixAtSomeLevel ==
  /\ [](\A url \in Urls :
          isWhitelisted(url) <=>
            \E i \in 1..Len(whitelistedUrls) :
              AcceptsAtSomeLevel(url, whitelistedUrls[i]))
  /\ [][(/\ whitelistedUrls = <<W_YT_A>>
         /\ arrayIncludes(blockedSites, D_YT)
         /\ lastRequest'.listener = "blockRequest"
         /\ BlockRequest(lastRequest'.url))
          => /\ lastRequest'.url = U_YT_A => lastRequest'.result = ALLOW
             /\ lastRequest'.url = U_YT_X => lastRequest'.result = Redirect("")]_vars

C8_Witness ==
  /\ whitelistedUrls = <<W_YT_A>>
  /\ arrayIncludes(blockedSites, D_YT)
  /\ isBlocking
  /\ lastRequest = Request("blockRequest", U_YT_X, Redirect(""))

(***************************************************************************)
(* C11: a manualToggle message received while appConnected is true is      *)
(* answered with an error and leaves isBlocking and the armed rules as     *)
(* they were; received while appConnected is false it is answered with the *)
(* new value, flips isBlocking and arms the session rule when the new      *)
(* value is true, disarms it when the new value is false.  A step of       *)
(* SpecSync that moves no poll cycle and is not initialize() is the        *)
(* handling of a manualToggle message.                                     *)
(***************************************************************************)
C11_ManualToggleOnlyWhenDisconnected ==
  [][UNCHANGED <<initialized, syncs>> =>
       IF appConnected
         THEN /\ "error" \in DOMAIN manualToggleResponse
              /\ UNCHANGED <<isBlocking, listeners>>
       ELSE /\ manualToggleResponse = [isBlocking |-> isBlocking']
            /\ isBlocking' = ~isBlocking
            /\ (BagIn("blockRequest", listeners')) = isBlocking'
            /\ \A l \in {"alwaysBlockRequest", "punishmentBlockRequest"} :
                 CopiesIn(l, listeners') = CopiesIn(l, listeners)]_vars

\* the user has switched blocking on by hand while the app was away, and the
\* app is back: from here a manualToggle is rejected
C11_Witness ==
  /\ initialized
  /\ appConnected
  /\ isBlocking
  /\ BagIn("blockRequest", listeners)
  /\ \A i \in SyncIds : syncs[i].pc = "idle"

(***************************************************************************)
(* C12: blocking that is on while the app is not connected (switched on by *)
(* manualToggle) stays on through a poll cycle whose /status fetch throws: *)
(* the failing cycle leaves isBlocking true and the session rule armed.    *)
(***************************************************************************)
C12_FailingPollKeepsManualBlocking ==
  [][\A i \in SyncIds :
       (/\ syncs[i].pc = "status"
        /\ syncs'[i].pc = "cachedInCatch"
        /\ ~appConnected
        /\ isBlocking
        /\ BagIn("blockRequest", listeners))
         => /\ isBlocking'
            /\ BagIn("blockRequest", listeners')]_vars

(***************************************************************************)
(* C13: arming is idempotent.  In every reachable state each of the three  *)
(* listeners is registered at most once, so that a navigation calls each   *)
(* armed listener once, as after a single arming; arming a rule that is    *)
(* armed, arming twice in a row, and disarming a rule that is not armed    *)
(* leave the registrations as they are.                                    *)
(***************************************************************************)
C13_ArmingIsIdempotent ==
  /\ \A l \in {"alwaysBlockRequest", "blockRequest", "punishmentBlockRequest"} :
       CopiesIn(l, listeners) <= 1
  /\ startAlwaysBlocking(startAlwaysBlocking(listeners))
       = startAlwaysBlocking(listeners)
  /\ startBlocking(startBlocking(listeners)) = startBlocking(listeners)
  /\ startPunishmentBlocking(startPunishmentBlocking(listeners))
       = startPunishmentBlocking(listeners)
  /\ hasListener(listeners, "alwaysBlockRequest")
       => startAlwaysBlocking(listeners) = listeners
  /\ hasListener(listeners, "blockRequest")
       => startBlocking(listeners) = listeners
  /\ hasListener(listeners, "punishmentBlockRequest")
       => startPunishmentBlocking(listeners) = listeners
  /\ ~hasListener(listeners, "blockRequest")
       => stopBlocking(listeners) = listeners
  /\ ~hasListener(listeners, "punishmentBlockRequest")
       => stopPunishmentBlocking(listeners) = listeners
  /\ stopBlocking(stopBlocking(listeners)) = stopBlocking(listeners)
  /\ stopPunishmentBlocking(stopPunishmentBlocking(listeners))
       = stopPunishmentBlocking(listeners)

\* all three rules are armed and a poll cycle that saw the session start is
\* about to call startBlocking() again
C13_Witness ==
  /\ hasListener(listeners, "alwaysBlockRequest")
  /\ hasListener(listeners, "blockRequest")
  /\ hasListener(listeners, "punishmentBlockRequest")
  /\ \E i \in SyncIds : syncs[i].pc = "sites"

(***************************************************************************)
(* C14: FIFO retry order.  Whenever two reports are both in                *)
(* usageReportQueue, the one that was first queued earlier is ahead of the *)
(* other, also when reports are queued or a second flush starts while a    *)
(* flush pass is in flight.                                                *)
(***************************************************************************)
C14_QueueKeepsFirstQueuedOrder ==
  \A i, j \in 1..Len(usageReportQueue) :
    i < j =>
      \E m, n \in 1..Len(firstQueued) :
        /\ firstQueued[m] = usageReportQueue[i].id
        /\ firstQueued[n] = usageReportQueue[j].id
        /\ m < n

(***************************************************************************)
(* C15: while isPunishmentLocked is false, a URL that isWhitelisted        *)
(* accepts is allowed by every armed rule: neither the session-block       *)
(* listener nor the always-block listener redirects it.                    *)
(***************************************************************************)
C15_WhitelistedNeverRedirected ==
  [][(/\ ~isPunishmentLocked
      /\ isWhitelisted(lastRequest'.url)
      /\ \/ /\ lastRequest'.listener = "blockRequest"
            /\ BlockRequest(lastRequest'.url)
         \/ /\ lastRequest'.listener = "alwaysBlockRequest"
            /\ AlwaysBlockRequest(lastRequest'.url))
       => lastRequest'.result = ALLOW]_vars

(***************************************************************************)
(* C15, as the listeners behave: while isPunishmentLocked is false, the    *)
(* session-block listener allows every URL that isWhitelisted accepts; the *)
(* always-block listener does not consult the whitelist and redirects such *)
(* a URL exactly when the matcher of the permanent list matches it.        *)
(***************************************************************************)
C15_WhitelistedAllowedBySessionRuleOnly ==
  [][(/\ ~isPunishmentLocked
      /\ isWhitelisted(lastRequest'.url))
       => /\ (/\ lastRequest'.listener = "blockRequest"
              /\ BlockRequest(lastRequest'.url))
                => lastRequest'.result = ALLOW
          /\ (/\ lastRequest'.listener = "alwaysBlockRequest"
              /\ AlwaysBlockRequest(lastRequest'.url))
                => lastRequest'.result.redirect
                     = patternTest(buildAlwaysBlockPattern, lastRequest'.url)]_vars

\* a whitelisted URL that both matchers match has been allowed by the
\* session-block listener, outside a punishment lock
C15_Witness ==
  /\ ~isPunishmentLocked
  /\ isBlocking
  /\ lastRequest.listener = "blockRequest"
  /\ lastRequest.result = ALLOW
  /\ isWhitelisted(lastRequest.url)
  /\ patternTest(buildBlockPattern, lastRequest.url)
  /\ patternTest(buildAlwaysBlockPattern, lastRequest.url)

(***************************************************************************)
(* C16: the session-block rule follows isBlocking.  In every state in      *)
(* which no invocation of syncWithApp is in progress, the blockRequest     *)
(* listener is registered exactly when isBlocking is true, whatever the    *)
(* interleaving of overlapping poll cycles and manual toggles has been.    *)
(***************************************************************************)
C16_SessionRuleFollowsIsBlocking ==
  (\A i \in SyncIds : syncs[i].pc = "idle")
    => (hasListener(listeners, "blockRequest") <=> isBlocking)

(***************************************************************************)
(* C17: a non-OK answer to /status is handled like an unreachable server:  *)
(* the cycle that receives it sets appConnected to false and leaves        *)
(* isBlocking false and the session-block rule disarmed.                   *)
(***************************************************************************)
C17_NonOkStatusStopsBlocking ==
  [][\A i \in SyncIds :
       (/\ syncs[i].pc = "status"
        /\ syncs'[i].pc = "punishment"
        /\ SyncStatusNotOk(i))
         => /\ ~appConnected'
            /\ ~isBlocking'
            /\ ~hasListener(listeners', "blockRequest")]_vars

(***************************************************************************)
(* C18: the three polls of a cycle are independent.  Whatever the outcome  *)
(* of the /status request, the cycle goes on to issue the                  *)
(* /punishment-status request (after the /sites refresh, if the session    *)
(* has just started), and a cycle ends only once its /nsfw-cache request   *)
(* has been issued and answered.                                           *)
(***************************************************************************)
C18_PollsAreIndependent ==
  [][\A i \in SyncIds :
       /\ (syncs[i].pc = "status" /\ syncs'[i].pc # "status")
            => syncs'[i].pc \in {"sites", "punishment"}
       /\ (syncs[i].pc # "idle" /\ syncs'[i].pc = "idle")
            => syncs[i].pc \in {"cache", "cacheStored"}]_vars

(***************************************************************************)
(* C19: offline punishment fallback.  The cached record's                  *)
(* lock_time_remaining runs down with the time elapsed since it was        *)
(* cached, so while the server stays unreachable a cached lock, whose      *)
(* remaining time is finite, is released in the end and stays released.    *)
(***************************************************************************)
C19_CachedLockEventuallyReleased == <>[](~isPunishmentLocked)

(***************************************************************************)
(* C20: the punishment-block rule follows isPunishmentLocked.  In every    *)
(* reachable state the punishmentBlockRequest listener is registered       *)
(* exactly when isPunishmentLocked is true, whatever the interleaving of   *)
(* startup, overlapping /punishment-status polls and fallbacks to the      *)
(* cached record has been.                                                 *)
(***************************************************************************)
C20_PunishmentRuleFollowsLock ==
  hasListener(listeners, "punishmentBlockRequest") <=> isPunishmentLocked

\* the lock is on while one cycle is about to apply a fresh record that lifts
\* it and an overlapping cycle is about to fall back to the cached record
C20_Witness ==
  /\ initialized
  /\ isPunishmentLocked
  /\ hasListener(listeners, "punishmentBlockRequest")
  /\ \E i, j \in SyncIds :
       /\ syncs[i].pc = "punishmentStored"
       /\ ~syncs[i].status.is_locked
       /\ syncs[j].pc \in {"cachedInCatch", "cachedInCheck"}

(***************************************************************************)
(* C21: once initialize() has armed the always-block rule, it is armed in  *)
(* every later state: the alwaysBlockRequest listener stays registered     *)
(* through every poll outcome, manual toggle and punishment transition.    *)
(***************************************************************************)
C21_AlwaysBlockStaysArmed ==
  initialized => CopiesIn("alwaysBlockRequest", listeners) = 1

\* a failing poll has just disarmed the session rule; the always-block rule
\* is still armed
C21_Witness ==
  /\ initialized
  /\ hasListener(listeners, "alwaysBlockRequest")
  /\ ~hasListener(listeners, "blockRequest")
  /\ \E i \in SyncIds : syncs[i].pc = "cachedInCatch" /\ syncs[i].wasBlocking

(***************************************************************************)
(* C22: on an Off->On transition of isBlocking reported by /status, the    *)
(* cycle arms the session-block rule only when its /sites refresh has      *)
(* completed or failed: the step that observes the transition and the      *)
(* steps of the refresh leave the registrations alone, and the step that   *)
(* ends the refresh leaves the rule armed.  If the refresh fails, the rule *)
(* is armed all the same and blockedSites, alwaysBlockedSites and          *)
(* whitelistedUrls keep their values.                                      *)
(***************************************************************************)
C22_ArmedAfterSitesRefresh ==
  [][\A i \in SyncIds :
       LET inRefresh(pc) ==
             pc \in {"sites", "sitesStored1", "sitesStored2", "sitesStored3"}
       IN /\ (syncs[i].pc = "status" /\ inRefresh(syncs'[i].pc))
               => (~isBlocking /\ isBlocking' /\ listeners' = listeners)
          /\ (inRefresh(syncs[i].pc) /\ inRefresh(syncs'[i].pc)
                /\ syncs'[i] # syncs[i])
               => listeners' = listeners
          /\ (inRefresh(syncs[i].pc) /\ ~inRefresh(syncs'[i].pc))
               => /\ syncs'[i].pc = "punishment"
                  /\ CopiesIn("blockRequest", listeners') = 1
          /\ (syncs[i].pc = "sites" /\ SitesFailed(i))
               => /\ CopiesIn("blockRequest", listeners') = 1
                  /\ UNCHANGED <<blockedSites, alwaysBlockedSites,
                                 whitelistedUrls>>]_vars

\* the refresh of a cycle that saw the session start has failed: the rule is
\* armed with the lists loaded at startup
C22_Witness ==
  /\ isBlocking
  /\ appConnected
  /\ hasListener(listeners, "blockRequest")
  /\ blockedSites = DEFAULT_BLOCKED_SITES
  /\ storage.whitelistedUrls = NONE
  /\ \E i \in SyncIds : syncs[i].pc = "punishment"

(***************************************************************************)
(* C23: alwaysBlockedSites only grows while the script runs: a domain that *)
(* is in the list, in particular one appended by checkPageContent, is in   *)
(* the list after every step, whatever poll cycle or /sites refresh the    *)
(* step belongs to.                                                        *)
(***************************************************************************)
C23_PermanentListOnlyGrows ==
  [][\A k \in 1..Len(alwaysBlockedSites) :
       \E m \in 1..Len(alwaysBlockedSites') :
         alwaysBlockedSites'[m] = alwaysBlockedSites[k]]_vars

(***************************************************************************)
(* C24: the lists are replaced wholesale.  When a cycle's refresh from an  *)
(* OK answer of /sites ends, blockedSites, alwaysBlockedSites and          *)
(* whitelistedUrls equal the sites, alwaysBlocked and whitelist lists of   *)
(* the answer, also when a list of the answer is empty.                    *)
(***************************************************************************)
C24_ListsEqualSitesResponse ==
  [][\A i \in SyncIds :
       (/\ syncs[i].pc = "sitesStored3"
        /\ syncs'[i].pc = "punishment")
         => /\ blockedSites' = syncs[i].data.sites
            /\ alwaysBlockedSites' = syncs[i].data.alwaysBlocked
            /\ whitelistedUrls' = OrElse(syncs[i].data.whitelist, <<>>)]_vars

(***************************************************************************)
(* C25: a soft failure is never cached.  When /check-content answers OK    *)
(* with the method disabled or no_api_key, neither the step that takes the *)
(* answer nor a later step of that invocation adds the domain to           *)
(* aiCheckedDomains (or to the persisted copy); when the answer is not     *)
(* NSFW the invocation ends there, with the domain no longer in progress   *)
(* and not on the permanent list, so that its next page load is submitted  *)
(* again.                                                                  *)
(***************************************************************************)
C25_SoftFailureNotCached ==
  [][\A c \in CheckIds :
       /\ \A result \in CheckResults :
            (/\ result.method \in {"disabled", "no_api_key"}
             /\ CheckContentOk(c, result))
              => /\ aiCheckedDomains' = aiCheckedDomains
                 /\ storage'.aiCheckedDomains = storage.aiCheckedDomains
                 /\ checks'[c].pc # "checkedStored"
                 /\ ~result.is_nsfw
                      => /\ checks'[c].pc = "idle"
                         /\ extractDomain(checks[c].url) \notin aiCheckInProgress'
                         /\ alwaysBlockedSites' = alwaysBlockedSites
       /\ (/\ checks[c].pc = "blockedStored"
           /\ checks[c].result.method \in {"disabled", "no_api_key"}
           /\ checks'[c].pc = "idle")
            => /\ aiCheckedDomains' = aiCheckedDomains
               /\ storage'.aiCheckedDomains = storage.aiCheckedDomains]_vars

\* an answer with the method disabled has been taken for e.org (it is being
\* appended to the permanent list) and e.org is not among the checked domains
C25_Witness ==
  \E c \in CheckIds :
    /\ checks[c].pc = "blockedStored"
    /\ checks[c].url = U_EXAMPLE
    /\ checks[c].result.method = "disabled"
    /\ D_EXAMPLE \notin aiCheckedDomains
    /\ storage.aiCheckedDomains = NONE

(***************************************************************************)
(* C26: the inProgress marker is always cleared.  In every state           *)
(* aiCheckInProgress holds exactly the domains of the invocations of       *)
(* checkPageContent that have marked their domain and have not ended: an   *)
(* invocation that ends, by success, non-OK answer or exception, takes its *)
(* domain out, and when no classification is outstanding the set is empty. *)
(***************************************************************************)
C26_InProgressIsOutstandingChecks ==
  /\ aiCheckInProgress =
       {extractDomain(checks[c].url) :
          c \in {d \in CheckIds :
                   checks[d].pc \in {"extract", "checkContent",
                                     "checkedStored", "blockedStored"}}}
  /\ (\A c \in CheckIds : checks[c].pc \in {"idle", "ping"})
       => aiCheckInProgress = {}

\* e.org has been classified and s.yt.com is being classified: only s.yt.com
\* is marked
C26_Witness ==
  /\ D_EXAMPLE \in aiCheckedDomains
  /\ aiCheckInProgress = {D_SUB_YT}
  /\ \E c \in CheckIds : checks[c].pc = "checkContent" /\ checks[c].url = U_SUB_YT

(***************************************************************************)
(* C27: a classification that is skipped or that fails has no side effect. *)
(* A page load that starts no classification, a /ping after which the      *)
(* invocation ends (server still unreachable, or shouldCheckDomain false)  *)
(* and a /check-content call that is answered non-OK or throws leave       *)
(* aiCheckedDomains, alwaysBlockedSites, their persisted copies and the    *)
(* registered listeners unchanged, update no tab and report no strike;     *)
(* the domain is left unmarked, so that its next visit classifies it.      *)
(***************************************************************************)
C27_SkippedOrFailedCheckHasNoEffect ==
  [][\A c \in CheckIds :
       LET skippedAtLoad ==
             /\ \E url \in PageUrls : PageLoaded(url)
             /\ checks' = checks
           endedAfterPing ==
             /\ checks[c].pc = "ping"
             /\ checks'[c].pc = "idle"
           failed == CheckContentFailed(c)
       IN (skippedAtLoad \/ endedAfterPing \/ failed)
            => /\ UNCHANGED <<aiCheckedDomains, alwaysBlockedSites, blockedSites,
                             listeners, storage, lastTabUpdate,
                             strikesInFlight>>
               /\ (endedAfterPing \/ failed)
                    => /\ checks'[c].pc = "idle"
                       /\ aiCheckInProgress'
                            = aiCheckInProgress
                                \ (IF failed THEN {extractDomain(checks[c].url)}
                                   ELSE {})]_vars

\* the server has become unreachable while one invocation waits for the
\* answer of /check-content and another one for the answer of /ping
C27_Witness ==
  /\ ~appConnected
  /\ aiCheckedDomains = {}
  /\ lastTabUpdate = NO_TAB_UPDATE
  /\ \E c, d \in CheckIds :
       /\ checks[c].pc = "checkContent"
       /\ checks[d].pc = "ping"

(***************************************************************************)
(* C28: which domains checkPageContent submits.                            *)
(***************************************************************************)
IsExcludedFromCheck(domain) ==
  \/ domain \in aiCheckedDomains
  \/ domain \in aiCheckInProgress
  \/ domain \in {LOOPBACK_IP, LOCALHOST}
  \/ \E k \in 1..Len(domain) : Drop(domain, k - 1) = DOT_LOCAL
  \/ patternTest(buildAlwaysBlockPattern, SCHEME_HTTPS \o domain)
  \/ patternTest(buildBlockPattern, SCHEME_HTTPS \o domain)

(***************************************************************************)
(* C28: an invocation of checkPageContent marks a domain as in progress    *)
(* and goes on to submit it only if, at that moment, the domain is not in  *)
(* aiCheckedDomains, is not in progress, is not 127.0.0.1 or localhost,    *)
(* does not end in .local and is matched neither by the always-block       *)
(* matcher nor by the session-block matcher, whether or not isBlocking is  *)
(* true; and with the server reachable an invocation ends without          *)
(* submitting only if one of these holds for its domain.                   *)
(***************************************************************************)
C28_SubmittedIffNotExcluded ==
  [][\A c \in CheckIds :
       /\ (checks[c].pc \in {"idle", "ping"} /\ checks'[c].pc = "extract")
            => /\ ~IsExcludedFromCheck(extractDomain(checks'[c].url))
               /\ extractDomain(checks'[c].url) # <<>>
               /\ appConnected'
       /\ (checks[c].pc = "ping" /\ checks'[c].pc = "idle" /\ appConnected')
            => IsExcludedFromCheck(extractDomain(checks[c].url))
       /\ \A url \in CheckUrls :
            (/\ PageLoaded(url)
             /\ appConnected
             /\ checks' = checks)
              => IsExcludedFromCheck(extractDomain(url))]_vars

\* s.yt.com is being classified while the session list, which does not
\* match it, is enforced
C28_Witness ==
  /\ isBlocking
  /\ appConnected
  /\ \E c \in CheckIds :
       /\ checks[c].pc = "checkContent"
       /\ checks[c].url = U_SUB_YT

(***************************************************************************)
(* C29: when the window loses the focus, the tracker reports the elapsed   *)
(* whole seconds of the open session and clears the session (both          *)
(* currentDomain and trackingStartTime become null), so that a periodic    *)
(* tick taken while the window is unfocused reports nothing.               *)
(***************************************************************************)
C29_FocusLossClearsSession ==
  [][/\ WindowFocusLost
          => /\ currentDomain' = NONE
             /\ trackingStartTime' = NONE
             /\ (currentDomain # NONE /\ trackingStartTime # NONE
                   /\ elapsedSeconds > 0 /\ nextReportId <= MaxReports)
                  => \E report \in sending' \ sending :
                       /\ report.domain = currentDomain[1]
                       /\ report.seconds = elapsedSeconds
     /\ (PeriodicUsageReport /\ ~windowFocused)
          => UNCHANGED <<sending, nextReportId>>]_vars

(***************************************************************************)
(* C30: within one pass of flushUsageQueue the drain stops at the first    *)
(* failed delivery, be it a network error or a non-OK response: the pass   *)
(* sends no further report of its batch, and the reports of the batch that *)
(* were not sent yet are on usageReportQueue for the next flush.           *)
(***************************************************************************)
C30_DrainStopsAtFirstFailure ==
  [][\A f \in FlushIds :
       (FlushDeliveryNotOk(f) \/ FlushDeliveryError(f))
         => /\ flushes'[f] = <<>>
            /\ \A k \in 1..Len(flushes[f]) :
                 \E j \in 1..Len(usageReportQueue') :
                   usageReportQueue'[j] = flushes[f][k]]_vars

(***************************************************************************)
(* C31: appConnected is written only by the step of syncWithApp that takes *)
(* the outcome of its /status request (true when it answered OK, false     *)
(* otherwise); no other step, in particular none of checkPageContent,      *)
(* changes it.                                                             *)
(***************************************************************************)
C31_AppConnectedOnlyFromStatusPolls ==
  [][/\ appConnected' # appConnected
          => \E i \in SyncIds : /\ syncs[i].pc = "status"
                                /\ syncs'[i].pc # "status"
     /\ \A i \in SyncIds :
          /\ (\E b \in BOOLEAN : SyncStatusOk(i, b)) => appConnected'
          /\ (SyncStatusNotOk(i) \/ SyncStatusError(i)) => ~appConnected']_vars

(***************************************************************************)
(* C32: the usage session is well-formed in every reachable state, that    *)
(* is, currentDomain and trackingStartTime are both null or both set; and  *)
(* every report the tracker issues is for the open session, covers no more *)
(* than the time since trackingStartTime was last set, and with the        *)
(* reports issued before it for the session does not exceed the time since *)
(* the session was opened (a second is two ticks of the clock).            *)
(***************************************************************************)
C32_SessionWellFormed ==
  [][/\ (currentDomain = NONE) <=> (trackingStartTime = NONE)
     /\ (currentDomain' = NONE) <=> (trackingStartTime' = NONE)
     /\ \A report \in sending' \ sending :
          /\ currentDomain # NONE
          /\ sessionOpenedAt # NONE
          /\ report.domain = currentDomain[1]
          /\ report.seconds * 2 <= now - trackingStartTime[1]
          /\ (sessionReported + report.seconds) * 2 <= now - sessionOpenedAt[1]]_vars

\* a session that was reported by the periodic tick and again later is open
\* while the window is unfocused
C32_Witness ==
  /\ currentDomain # NONE
  /\ ~windowFocused
  /\ sessionReported > 10
  /\ trackingStartTime # sessionOpenedAt

(***************************************************************************)
(* C33: a domain that a cached classification result has put into          *)
(* aiCheckedDomains is in aiCheckedDomains after every later step, and no  *)
(* invocation of checkPageContent marks it as in progress to submit it     *)
(* again, whatever poll cycles and /nsfw-cache refreshes complete.         *)
(***************************************************************************)
C33_ClassifiedDomainStaysChecked ==
  [][/\ classified' \subseteq aiCheckedDomains'
     /\ \A c \in CheckIds :
          (checks[c].pc # "extract" /\ checks'[c].pc = "extract")
            => extractDomain(checks'[c].url) \notin classified]_vars

====
